---- MODULE Spec2Model ----
(***************************************************************************)
(* The banking data pipeline of backend/app/watsonx: the four nodes        *)
(* (ingestion, validation, cleaning, anomaly detection) as operators on an *)
(* in-memory DataFrame, and DataPipeline.execute_full_pipeline as a state  *)
(* machine that runs them in order.                                        *)
(*                                                                         *)
(* A DataFrame is [columns, rows]: columns is the sequence of column       *)
(* names, rows the sequence of [idx, cells], cells aligned with columns.   *)
(* Text is a sequence of one-character strings, so that strip, lower and   *)
(* float() act on characters.  A Python dict is a record: its keys are the *)
(* record's DOMAIN.                                                        *)
(***************************************************************************)
EXTENDS Integers, Sequences, FiniteSets, TLC

(***************************************************************************)
(* Cell values.                                                            *)
(***************************************************************************)
\* NaN / NaT: the missing value of a float or a datetime column
Null == [t |-> "null", n |-> 0, s |-> <<>>]

\* None: the missing value an object column keeps (a JSON null among strings)
PyNone == [t |-> "none", n |-> 0, s |-> <<>>]

\* a float, held in thousandths (Num(1500) is 1.5)
Num(n) == [t |-> "num", n |-> n, s |-> <<>>]

\* a str, as its characters
Str(s) == [t |-> "str", n |-> 0, s |-> s]

\* a str that pd.to_datetime parses to a naive date `age` days before now
\* (age < 0: in the future)
DateStr(age) == [t |-> "datestr", n |-> age, s |-> <<>>]

\* a naive datetime / pd.Timestamp `age` days before now
Ts(age) == [t |-> "ts", n |-> age, s |-> <<>>]

\* a timezone-aware pd.Timestamp
TsAware(age) == [t |-> "tsaware", n |-> age, s |-> <<>>]

\* a bool
Bool(b) == [t |-> "bool", n |-> IF b THEN 1 ELSE 0, s |-> <<>>]

\* the str() of a list of row errors, kept as the list of their field names
Repr(fields) == [t |-> "repr", n |-> 0, s |-> fields]

\* pd.isna
isna(v) == v.t \in {"null", "none"}

notna(v) == ~isna(v)

\* isinstance(value, str)
IsPyStr(v) == v.t \in {"str", "datestr", "repr"}

(***************************************************************************)
(* Characters and str methods.                                             *)
(***************************************************************************)
UpperSeq == <<"A","B","C","D","E","F","G","H","I","J","K","L","M",
              "N","O","P","Q","R","S","T","U","V","W","X","Y","Z">>

LowerSeq == <<"a","b","c","d","e","f","g","h","i","j","k","l","m",
              "n","o","p","q","r","s","t","u","v","w","x","y","z">>

DigitSeq == <<"0","1","2","3","4","5","6","7","8","9">>

IsUpperChar(c) == \E i \in 1..26 : UpperSeq[i] = c

IsLowerChar(c) == \E i \in 1..26 : LowerSeq[i] = c

IsDigit(c) == \E i \in 1..10 : DigitSeq[i] = c

DigitVal(c) == (CHOOSE i \in 1..10 : DigitSeq[i] = c) - 1

IsSpace(c) == c \in {" ", "\t", "\n"}

LowerChar(c) ==
    IF IsUpperChar(c) THEN LowerSeq[CHOOSE i \in 1..26 : UpperSeq[i] = c] ELSE c

UpperChar(c) ==
    IF IsLowerChar(c) THEN UpperSeq[CHOOSE i \in 1..26 : LowerSeq[i] = c] ELSE c

\* str.lower()
Lower(s) == [i \in 1..Len(s) |-> LowerChar(s[i])]

\* str.upper()
Upper(s) == [i \in 1..Len(s) |-> UpperChar(s[i])]

\* str.strip()
Strip(s) ==
    LET keep == {i \in 1..Len(s) : ~IsSpace(s[i])}
    IN  IF keep = {} THEN <<>>
        ELSE LET lo == CHOOSE i \in keep : \A j \in keep : i <= j
                 hi == CHOOSE i \in keep : \A j \in keep : j <= i
             IN  SubSeq(s, lo, hi)

RECURSIVE DigitsValue(_)
DigitsValue(s) ==
    IF s = <<>> THEN 0 ELSE DigitsValue(SubSeq(s, 1, Len(s) - 1)) * 10 + DigitVal(s[Len(s)])

AllDigits(s) == \A i \in 1..Len(s) : IsDigit(s[i])

\* the thousandths a fraction's digits stand for (a fourth digit on is not kept)
FracMilli(f) ==
    LET d(i) == IF i <= Len(f) THEN DigitVal(f[i]) ELSE 0
    IN  d(1) * 100 + d(2) * 10 + d(3)

\* float() of an unsigned decimal literal: digits, digits.digits, digits. or .digits
ParseUnsigned(u) ==
    LET dots == {i \in 1..Len(u) : u[i] = "."}
    IN  IF dots = {}
        THEN IF u # <<>> /\ AllDigits(u)
             THEN [ok |-> TRUE, v |-> Num(DigitsValue(u) * 1000)]
             ELSE [ok |-> FALSE, v |-> Null]
        ELSE LET p  == CHOOSE i \in dots : \A j \in dots : i <= j
                 ip == SubSeq(u, 1, p - 1)
                 fp == SubSeq(u, p + 1, Len(u))
             IN  IF AllDigits(ip) /\ AllDigits(fp) /\ (ip # <<>> \/ fp # <<>>)
                 THEN [ok |-> TRUE, v |-> Num(DigitsValue(ip) * 1000 + FracMilli(fp))]
                 ELSE [ok |-> FALSE, v |-> Null]

\* float(value): [ok, v]; ok = FALSE is ValueError / TypeError (float(None) is a
\* TypeError).  float("nan") is the NaN that pd.isna is true of.
PyFloat(value) ==
    CASE value.t = "num"  -> [ok |-> TRUE, v |-> value]
      [] value.t = "null" -> [ok |-> TRUE, v |-> Null]
      [] value.t = "bool" -> [ok |-> TRUE, v |-> Num(value.n * 1000)]
      [] value.t = "str"  ->
            LET Signed(sign, r) ==
                    IF r.ok THEN [ok |-> TRUE, v |-> Num(sign * r.v.n)]
                    ELSE [ok |-> FALSE, v |-> Null]
                Literal(st, u) ==
                    IF Lower(u) = <<"n", "a", "n">> THEN [ok |-> TRUE, v |-> Null]
                    ELSE Signed(IF st[1] = "-" THEN -1 ELSE 1, ParseUnsigned(u))
                Stripped(st) ==
                    IF st = <<>> THEN [ok |-> FALSE, v |-> Null]
                    ELSE Literal(st, IF st[1] \in {"-", "+"} THEN Tail(st) ELSE st)
            IN  Stripped(Strip(value.s))
      [] OTHER -> [ok |-> FALSE, v |-> Null]

(***************************************************************************)
(* Column names.                                                           *)
(***************************************************************************)
c_transaction_id == <<"t","r","a","n","s","a","c","t","i","o","n","_","i","d">>

c_customer_id == <<"c","u","s","t","o","m","e","r","_","i","d">>

c_amount == <<"a","m","o","u","n","t">>

c_transaction_date == <<"t","r","a","n","s","a","c","t","i","o","n","_","d","a","t","e">>

c_status == <<"s","t","a","t","u","s">>

c_balance == <<"b","a","l","a","n","c","e">>

c_currency == <<"c","u","r","r","e","n","c","y">>

c_transaction_type == <<"t","r","a","n","s","a","c","t","i","o","n","_","t","y","p","e">>

c_description == <<"d","e","s","c","r","i","p","t","i","o","n">>

c_is_valid == <<"i","s","_","v","a","l","i","d">>

c_validation_errors == <<"v","a","l","i","d","a","t","i","o","n","_","e","r","r","o","r","s">>

c_original_values == <<"o","r","i","g","i","n","a","l","_","v","a","l","u","e","s">>

c_cleaning_actions == <<"c","l","e","a","n","i","n","g","_","a","c","t","i","o","n","s">>

c_was_cleaned == <<"w","a","s","_","c","l","e","a","n","e","d">>

c_is_duplicate == <<"i","s","_","d","u","p","l","i","c","a","t","e">>

c_is_anomaly == <<"i","s","_","a","n","o","m","a","l","y">>

(***************************************************************************)
(* pandas.DataFrame: the part of it the nodes use.                         *)
(***************************************************************************)
\* col in df.columns
HasColumn(df, col) == \E i \in 1..Len(df.columns) : df.columns[i] = col

\* the first position of column col
ColIndex(df, col) ==
    CHOOSE i \in 1..Len(df.columns) :
        /\ df.columns[i] = col
        /\ \A j \in 1..Len(df.columns) : df.columns[j] = col => i <= j

\* two columns carry the name col: row.get(col) is then a Series, not a scalar
IsDuplicated(df, col) ==
    \E i, j \in 1..Len(df.columns) : i # j /\ df.columns[i] = col /\ df.columns[j] = col

\* row.get(col): the cell, None when there is no such column
RowGet(df, row, col) == IF HasColumn(df, col) THEN row.cells[ColIndex(df, col)] ELSE Null

\* df[col] = NaN for a column that is not there yet
WithColumn(df, col) ==
    IF HasColumn(df, col) THEN df
    ELSE [columns |-> Append(df.columns, col),
          rows    |-> [k \in 1..Len(df.rows) |->
                          [df.rows[k] EXCEPT !.cells = Append(@, Null)]]]

\* df.at[idx, col] = v: the column is added when missing, and every row labelled
\* idx gets v
SetAt(df, idx, col, v) ==
    LET d == WithColumn(df, col)
        c == ColIndex(d, col)
    IN  [d EXCEPT !.rows = [k \in 1..Len(d.rows) |->
            IF d.rows[k].idx = idx THEN [d.rows[k] EXCEPT !.cells[c] = v] ELSE d.rows[k]]]

\* df[col] = v for every row
SetColumn(df, col, v) ==
    LET d == WithColumn(df, col)
        c == ColIndex(d, col)
    IN  [d EXCEPT !.rows = [k \in 1..Len(d.rows) |-> [d.rows[k] EXCEPT !.cells[c] = v]]]

\* the index of df: its row labels, in row order
IndexOf(df) == [k \in 1..Len(df.rows) |-> df.rows[k].idx]

\* round(a / b * 100, 2) for integers a, b with b > 0, in hundredths of a percent
\* (round half to even, as Python rounds)
RoundPct(a, b) ==
    LET q == (a * 10000) \div b
        r == (a * 10000) % b
    IN  IF 2 * r < b THEN q
        ELSE IF 2 * r > b THEN q + 1
        ELSE IF q % 2 = 0 THEN q ELSE q + 1

\* list[:n]
Take(list, n) == SubSeq(list, 1, IF Len(list) < n THEN Len(list) ELSE n)

(***************************************************************************)
(* ValidationNode (nodes/validation_node.py).                              *)
(***************************************************************************)
\* ValidationNode.__init__: self.required_columns
required_columns ==
    <<c_transaction_id, c_customer_id, c_amount, c_transaction_date, c_status>>

\* the [:100] of validation_errors and rows_with_errors
ErrorListCap == 100

\* the days after which a date is "more than 10 years old"
MaxAgeDays == 3650

\* _check_required_columns as it would be were only the first column looked for
CheckFirstRequiredColumn(df) ==
    IF HasColumn(df, required_columns[1]) THEN <<>> ELSE <<required_columns[1]>>

_check_required_columns(df) ==
    LET Missing(col) == ~HasColumn(df, col)
    IN  SelectSeq(required_columns, Missing)

_validate_transaction_id(value) ==
    IF isna(value) THEN FALSE
    ELSE IF value.t = "str" THEN Len(value.s) > 0
    ELSE TRUE   \* str() of a number, a date or a bool is never empty

_validate_customer_id(value) ==
    IF isna(value) THEN FALSE
    ELSE IF value.t = "str" THEN Len(value.s) > 0
    ELSE TRUE

\* _validate_amount as it would be were a zero amount accepted
_validate_amount_accepts_zero(value) ==
    IF isna(value) THEN "Amount is missing"
    ELSE IF ~PyFloat(value).ok THEN "Amount is not a valid number"
    ELSE ""

\* "" when the amount is accepted, else the error message
_validate_amount(value) ==
    IF isna(value) THEN "Amount is missing"
    ELSE LET Checked(f) ==
                 IF ~f.ok THEN "Amount is not a valid number"
                 ELSE IF f.v.t = "num" /\ f.v.n = 0 THEN "Amount is zero"
                 ELSE ""
         IN  Checked(PyFloat(value))

valid_statuses ==
    { <<"c","o","m","p","l","e","t","e","d">>, <<"p","e","n","d","i","n","g">>,
      <<"f","a","i","l","e","d">>, <<"c","a","n","c","e","l","l","e","d">>,
      <<"s","u","c","c","e","s","s">>, <<"a","p","p","r","o","v","e","d">>,
      <<"d","e","c","l","i","n","e","d">>, <<"p","r","o","c","e","s","s","i","n","g">> }

_validate_status(value) ==
    IF isna(value) THEN FALSE
    ELSE IF value.t = "str" THEN Lower(value.s) \in valid_statuses
    ELSE FALSE   \* a str that is a date, or not a str at all

\* the range check both branches of _validate_date apply to a naive date
DateRangeError(age) ==
    IF age < 0 THEN "Date is in the future"
    ELSE IF age > MaxAgeDays THEN "Date is more than 10 years old"
    ELSE ""

\* value > now on a timezone-aware Timestamp is a TypeError, and the datetime
\* branch has no try around it
_validate_date_raises(value) == value.t = "tsaware"

\* "" when the date is accepted, else the error message
_validate_date(value) ==
    CASE isna(value)         -> "Date is missing"
      [] value.t = "ts"      -> DateRangeError(value.n)
      [] value.t = "datestr" -> DateRangeError(value.n)
      \* pd.to_datetime of a number counts nanoseconds from 1970
      [] value.t = "num"     -> "Date is more than 10 years old"
      \* pd.to_datetime raises ValueError / TypeError, which is caught
      [] OTHER               -> "Invalid date format"

\* a raised exception, in place of a returned dict
Raised(what) == [raised |-> what]

IsRaised(result) == "raised" \in DOMAIN result

\* the row_errors the loop body builds for one row, in the order of the checks
RowErrors(df, row) ==
    LET Failed(ok, field, error, value) ==
            IF ok THEN <<>> ELSE <<[field |-> field, error |-> error, value |-> value]>>
        Message(error, field, value) == Failed(error = "", field, error, value)
        Checks(txn, cust, amount, date, status) ==
               Failed(_validate_transaction_id(txn), "transaction_id",
                      "Invalid or missing transaction ID", txn)
            \o Failed(_validate_customer_id(cust), "customer_id",
                      "Invalid or missing customer ID", cust)
            \o Message(_validate_amount(amount), "amount", amount)
            \o Message(_validate_date(date), "transaction_date", date)
            \o Failed(_validate_status(status), "status",
                      "Invalid or missing status", status)
    IN  Checks(RowGet(df, row, c_transaction_id), RowGet(df, row, c_customer_id),
               RowGet(df, row, c_amount), RowGet(df, row, c_transaction_date),
               RowGet(df, row, c_status))

\* ValidateRow as it would be were is_valid set True on both branches
ValidateRowAlwaysValid(df0, row, st) ==
    LET Record(row_errors) ==
            IF row_errors # <<>>
            THEN [df |-> SetAt(SetAt(st.df, row.idx, c_is_valid, Bool(TRUE)),
                               row.idx, c_validation_errors,
                               Repr([i \in 1..Len(row_errors) |-> row_errors[i].field])),
                  validation_errors |-> st.validation_errors \o row_errors,
                  rows_with_errors  |-> Append(st.rows_with_errors, row.idx)]
            ELSE [st EXCEPT !.df = SetAt(@, row.idx, c_is_valid, Bool(TRUE))]
    IN  Record(RowErrors(df0, row))

\* what one row does to df, validation_errors and rows_with_errors
ValidateRow(df0, row, st) ==
    LET Record(row_errors) ==
            IF row_errors # <<>>
            THEN [df |-> SetAt(SetAt(st.df, row.idx, c_is_valid, Bool(FALSE)),
                               row.idx, c_validation_errors,
                               Repr([i \in 1..Len(row_errors) |-> row_errors[i].field])),
                  validation_errors |-> st.validation_errors \o row_errors,
                  rows_with_errors  |-> Append(st.rows_with_errors, row.idx)]
            ELSE [st EXCEPT !.df = SetAt(@, row.idx, c_is_valid, Bool(TRUE))]
    IN  Record(RowErrors(df0, row))

\* for idx, row in df.iterrows(): rows k.. of the frame as it was when the loop began
RECURSIVE ValidationLoop(_, _, _)
ValidationLoop(df0, k, st) ==
    IF k > Len(df0.rows) THEN st
    ELSE ValidationLoop(df0, k + 1, ValidateRow(df0, df0.rows[k], st))

\* the loop raises: a validated column is there twice, so that row.get gives a
\* Series whose truth value is ambiguous, or a date is timezone-aware
ValidationRaises(df) ==
    /\ Len(df.rows) > 0
    /\ \/ \E i \in 1..Len(required_columns) : IsDuplicated(df, required_columns[i])
       \/ \E k \in 1..Len(df.rows) :
              _validate_date_raises(RowGet(df, df.rows[k], c_transaction_date))

\* ValidationMetrics as it would be were the errors counted after the [:100]
ValidationMetricsCapped(total_rows, rows_with_errors, validation_errors) ==
    [total_rows      |-> total_rows,
     valid_rows      |-> total_rows - Len(rows_with_errors),
     invalid_rows    |-> Len(rows_with_errors),
     validation_rate |-> IF total_rows > 0
                         THEN RoundPct(total_rows - Len(rows_with_errors), total_rows)
                         ELSE 0,
     error_count     |-> Len(Take(validation_errors, ErrorListCap))]

\* the metrics dict; validation_rate in hundredths of a percent
ValidationMetrics(total_rows, rows_with_errors, validation_errors) ==
    LET valid_rows == total_rows - Len(rows_with_errors)
    IN  [total_rows      |-> total_rows,
         valid_rows      |-> valid_rows,
         invalid_rows    |-> Len(rows_with_errors),
         validation_rate |-> IF total_rows > 0 THEN RoundPct(valid_rows, total_rows) ELSE 0,
         error_count     |-> Len(validation_errors)]

\* ValidationNode.execute
ValidationNode_execute(dataframe) ==
    LET df == dataframe
        Validated(st) ==
            [success |-> TRUE, node_id |-> "validation_node",
             dataframe |-> st.df,
             metrics |-> ValidationMetrics(Len(st.df.rows), st.rows_with_errors,
                                           st.validation_errors),
             validation_errors |-> Take(st.validation_errors, ErrorListCap),
             rows_with_errors  |-> Take(st.rows_with_errors, ErrorListCap)]
        Checked(missing_columns) ==
            IF missing_columns # <<>>
            THEN [success |-> FALSE, node_id |-> "validation_node",
                  error |-> missing_columns, dataframe |-> df]
            ELSE IF ValidationRaises(df) THEN Raised("validation")
            ELSE Validated(ValidationLoop(df, 1, [df |-> df, validation_errors |-> <<>>,
                                                  rows_with_errors |-> <<>>]))
    IN  Checked(_check_required_columns(df))

(***************************************************************************)
(* CleaningNode (nodes/cleaning_node.py).                                  *)
(***************************************************************************)
\* a list held in a cell
PyList(items) == [t |-> "list", n |-> 0, s |-> items]

\* a dict held in a cell, as its <<key, value>> items in insertion order
PyDict(items) == [t |-> "dict", n |-> 0, s |-> items]

\* a != b on two cell values: values of different types are never equal
PyNe(a, b) == a.t # b.t \/ a # b

RECURSIVE NatChars(_)
NatChars(n) ==
    IF n < 10 THEN <<DigitSeq[n + 1]>> ELSE NatChars(n \div 10) \o <<DigitSeq[(n % 10) + 1]>>

\* repr of a float held in thousandths: "1200.5", "-3.0", "0.125"
FloatChars(n) ==
    LET a    == IF n < 0 THEN -n ELSE n
        m    == a % 1000
        frac == IF m % 100 = 0 THEN <<DigitSeq[(m \div 100) + 1]>>
                ELSE IF m % 10 = 0
                     THEN <<DigitSeq[(m \div 100) + 1], DigitSeq[((m \div 10) % 10) + 1]>>
                ELSE <<DigitSeq[(m \div 100) + 1], DigitSeq[((m \div 10) % 10) + 1],
                       DigitSeq[(m % 10) + 1]>>
    IN  (IF n < 0 THEN <<"-">> ELSE <<>>) \o NatChars(a \div 1000) \o <<".">> \o frac

\* str(value)
PyStr(value) ==
    CASE value.t = "str"  -> value.s
      [] value.t = "num"  -> FloatChars(value.n)
      [] value.t = "null" -> <<"n", "a", "n">>
      [] value.t = "none" -> <<"N", "o", "n", "e">>
      [] value.t = "bool" -> IF value.n = 1 THEN <<"T", "r", "u", "e">>
                             ELSE <<"F", "a", "l", "s", "e">>

\* re.sub(r'[^a-zA-Z0-9_-]', '', s)
KeepIdChars(s) ==
    LET Keep(c) == IsUpperChar(c) \/ IsLowerChar(c) \/ IsDigit(c) \/ c \in {"_", "-"}
    IN  SelectSeq(s, Keep)

_clean_transaction_id(value) ==
    IF isna(value) THEN Str(<<>>) ELSE Str(Upper(KeepIdChars(Strip(PyStr(value)))))

_clean_customer_id(value) ==
    IF isna(value) THEN Str(<<>>) ELSE Str(Upper(KeepIdChars(Strip(PyStr(value)))))

\* round(amount, 2) on thousandths: to the nearest hundredth, a tie to the even one
Round2(n) ==
    LET q == n \div 10
        r == n % 10
    IN  IF r < 5 THEN q * 10
        ELSE IF r > 5 THEN (q + 1) * 10
        ELSE IF q % 2 = 0 THEN q * 10 ELSE (q + 1) * 10

\* re.sub(r'[$...,]', '', s): the currency symbols and the thousands separator
DropCurrencyChars(s) ==
    LET Keep(c) == c \notin {"$", ","}
    IN  SelectSeq(s, Keep)

\* UnParen as it would be were the parentheses left in place
KeepParen(s) == s

\* "(x)" becomes "-x"
UnParen(s) ==
    IF Len(s) >= 1 /\ s[1] = "(" /\ s[Len(s)] = ")"
    THEN <<"-">> \o SubSeq(s, 2, Len(s) - 1)
    ELSE s

_clean_amount(value) ==
    IF isna(value) THEN Num(0)
    ELSE LET Rounded(f) ==
                 IF ~f.ok THEN Num(0)
                 ELSE IF f.v.t = "num" THEN Num(Round2(f.v.n))
                 ELSE f.v   \* round(nan, 2) is nan
         IN  Rounded(PyFloat(IF value.t = "str"
                             THEN Str(UnParen(DropCurrencyChars(Strip(value.s))))
                             ELSE value))

status_map ==
    { <<<<"c","o","m","p","l","e","t","e">>, <<"c","o","m","p","l","e","t","e","d">>>>,
      <<<<"s","u","c","c","e","s","s">>, <<"c","o","m","p","l","e","t","e","d">>>>,
      <<<<"s","u","c","c","e","s","s","f","u","l">>, <<"c","o","m","p","l","e","t","e","d">>>>,
      <<<<"a","p","p","r","o","v","e","d">>, <<"c","o","m","p","l","e","t","e","d">>>>,
      <<<<"d","o","n","e">>, <<"c","o","m","p","l","e","t","e","d">>>>,
      <<<<"f","a","i","l">>, <<"f","a","i","l","e","d">>>>,
      <<<<"f","a","i","l","u","r","e">>, <<"f","a","i","l","e","d">>>>,
      <<<<"d","e","c","l","i","n","e","d">>, <<"f","a","i","l","e","d">>>>,
      <<<<"r","e","j","e","c","t","e","d">>, <<"f","a","i","l","e","d">>>>,
      <<<<"c","a","n","c","e","l">>, <<"c","a","n","c","e","l","l","e","d">>>>,
      <<<<"c","a","n","c","e","l","e","d">>, <<"c","a","n","c","e","l","l","e","d">>>>,
      <<<<"p","r","o","c","e","s","s">>, <<"p","r","o","c","e","s","s","i","n","g">>>>,
      <<<<"p","r","o","c","e","s","s","i","n","g">>, <<"p","r","o","c","e","s","s","i","n","g">>>>,
      <<<<"p","e","n","d">>, <<"p","e","n","d","i","n","g">>>>,
      <<<<"w","a","i","t","i","n","g">>, <<"p","e","n","d","i","n","g">>>> }

type_map ==
    { <<<<"d","e","p">>, <<"d","e","p","o","s","i","t">>>>,
      <<<<"c","r","e","d","i","t">>, <<"d","e","p","o","s","i","t">>>>,
      <<<<"w","i","t","h","d","r","a","w">>, <<"w","i","t","h","d","r","a","w","a","l">>>>,
      <<<<"w","i","t","h","d","r","a","w","a","l">>, <<"w","i","t","h","d","r","a","w","a","l">>>>,
      <<<<"d","e","b","i","t">>, <<"w","i","t","h","d","r","a","w","a","l">>>>,
      <<<<"t","r","a","n","s","f","e","r">>, <<"t","r","a","n","s","f","e","r">>>>,
      <<<<"x","f","e","r">>, <<"t","r","a","n","s","f","e","r">>>>,
      <<<<"p","a","y","m","e","n","t">>, <<"p","a","y","m","e","n","t">>>>,
      <<<<"p","a","y">>, <<"p","a","y","m","e","n","t">>>>,
      <<<<"p","u","r","c","h","a","s","e">>, <<"p","a","y","m","e","n","t">>>>,
      <<<<"r","e","f","u","n","d">>, <<"r","e","f","u","n","d">>>>,
      <<<<"r","e","t","u","r","n">>, <<"r","e","f","u","n","d">>>> }

\* dict.get(key, key) on a map given as <<key, value>> pairs
MapGet(map, key) ==
    IF \E p \in map : p[1] = key THEN (CHOOSE p \in map : p[1] = key)[2] ELSE key

_clean_status(value) ==
    IF isna(value) THEN Str(<<"u","n","k","n","o","w","n">>)
    ELSE Str(MapGet(status_map, Strip(Lower(PyStr(value)))))

_clean_transaction_type(value) ==
    IF isna(value) THEN Str(<<"u","n","k","n","o","w","n">>)
    ELSE Str(MapGet(type_map, Strip(Lower(PyStr(value)))))

\* re.sub(r'\s+', ' ', s): every run of whitespace becomes one space
RECURSIVE CollapseSpaces(_)
CollapseSpaces(s) ==
    IF s = <<>> THEN <<>>
    ELSE IF IsSpace(s[1])
         THEN IF Len(s) >= 2 /\ IsSpace(s[2]) THEN CollapseSpaces(Tail(s))
              ELSE <<" ">> \o CollapseSpaces(Tail(s))
         ELSE <<s[1]>> \o CollapseSpaces(Tail(s))

\* re.sub(r'[^\w\s\-.,!?()]', '', s)
KeepTextChars(s) ==
    LET Keep(c) == \/ IsUpperChar(c) \/ IsLowerChar(c) \/ IsDigit(c) \/ IsSpace(c)
                   \/ c \in {"_", "-", ".", ",", "!", "?", "(", ")"}
    IN  SelectSeq(s, Keep)

_clean_description(value) ==
    IF isna(value) THEN Str(<<>>)
    ELSE Str(KeepTextChars(CollapseSpaces(Strip(PyStr(value)))))

\* the [:100] of cleaning_log
CleaningLogCap == 100

\* one cleaner applied to one field of the row: the change it makes, if any
CleanField(df0, row, col, key, cleaned, action, acc) ==
    LET old == RowGet(df0, row, col)
    IN  IF notna(old) /\ PyNe(cleaned, old)
        THEN [df |-> SetAt(acc.df, row.idx, col, cleaned),
              original_values |-> Append(acc.original_values, <<key, old>>),
              actions |-> Append(acc.actions, action),
              row_modified |-> TRUE]
        ELSE acc

\* if pd.isna(row.get('currency')): df.at[idx, 'currency'] = 'USD'
ImputeCurrency(df0, row, acc) ==
    IF isna(RowGet(df0, row, c_currency))
    THEN [acc EXCEPT !.df = SetAt(@, row.idx, c_currency, Str(<<"U", "S", "D">>)),
                     !.actions = Append(@, "Imputed missing currency with USD"),
                     !.row_modified = TRUE]
    ELSE acc

\* the body of the per-row loop: st is [df, rows_modified, cleaning_log]
CleanRow(df0, row, st) ==
    LET a0 == [df |-> st.df, original_values |-> <<>>, actions |-> <<>>,
               row_modified |-> FALSE]
        TransactionId(a) ==
            CleanField(df0, row, c_transaction_id, "transaction_id",
                _clean_transaction_id(RowGet(df0, row, c_transaction_id)),
                "Cleaned transaction_id format", a)
        Amount(a) ==
            CleanField(df0, row, c_amount, "amount",
                _clean_amount(RowGet(df0, row, c_amount)),
                "Normalized amount value", a)
        Status(a) ==
            CleanField(df0, row, c_status, "status",
                _clean_status(RowGet(df0, row, c_status)),
                "Standardized status value", a)
        TransactionType(a) ==
            CleanField(df0, row, c_transaction_type, "transaction_type",
                _clean_transaction_type(RowGet(df0, row, c_transaction_type)),
                "Standardized transaction_type", a)
        Description(a) ==
            CleanField(df0, row, c_description, "description",
                _clean_description(RowGet(df0, row, c_description)),
                "Cleaned description text", a)
        Currency(a) == ImputeCurrency(df0, row, a)
        CustomerId(a) ==
            CleanField(df0, row, c_customer_id, "customer_id",
                _clean_customer_id(RowGet(df0, row, c_customer_id)),
                "Cleaned customer_id format", a)
        \* if row_modified: the three df.at writes, rows_modified += 1, the log entry
        Store(a) ==
            IF a.row_modified
            THEN [df |-> SetAt(SetAt(SetAt(a.df,
                             row.idx, c_original_values, PyDict(a.original_values)),
                             row.idx, c_cleaning_actions, PyList(a.actions)),
                             row.idx, c_was_cleaned, Bool(TRUE)),
                  rows_modified |-> st.rows_modified + 1,
                  cleaning_log  |-> Append(st.cleaning_log,
                                       [row_index |-> row.idx, actions |-> a.actions,
                                        original_values |-> a.original_values])]
            ELSE [st EXCEPT !.df = a.df]
    \* the checks in the order the loop body makes them
    IN  Store(CustomerId(Currency(Description(TransactionType(Status(Amount(
              TransactionId(a0))))))))

RECURSIVE CleaningLoop(_, _, _)
CleaningLoop(df0, k, st) ==
    IF k > Len(df0.rows) THEN st
    ELSE CleaningLoop(df0, k + 1, CleanRow(df0, df0.rows[k], st))

\* two cells are the same key for DataFrame.duplicated: NaN matches NaN
SameKey(a, b) == (isna(a) /\ isna(b)) \/ (a.t = b.t /\ a = b)

\* DuplicatedMask as it would be with keep=False: every row that shares its key
DuplicatedMaskKeepNone(df) ==
    [k \in 1..Len(df.rows) |->
        \E j \in 1..Len(df.rows) :
            /\ j # k
            /\ SameKey(RowGet(df, df.rows[j], c_transaction_id),
                       RowGet(df, df.rows[k], c_transaction_id))]

\* df.duplicated(subset=['transaction_id'], keep='first'), by row position
DuplicatedMask(df) ==
    [k \in 1..Len(df.rows) |->
        \E j \in 1..(k - 1) :
            SameKey(RowGet(df, df.rows[j], c_transaction_id),
                    RowGet(df, df.rows[k], c_transaction_id))]

\* _handle_duplicates as it would be with drop_duplicates(keep='first')
DropDuplicates(df) ==
    LET First(r) ==
            ~\E j \in 1..Len(df.rows) :
                /\ df.rows[j].idx < r.idx
                /\ SameKey(RowGet(df, df.rows[j], c_transaction_id),
                           RowGet(df, r, c_transaction_id))
    IN  [df EXCEPT !.rows = SelectSeq(df.rows, First)]

_handle_duplicates(df) ==
    LET mask == DuplicatedMask(df)
    IN  IF \E k \in 1..Len(df.rows) : mask[k]
        THEN LET d == WithColumn(df, c_is_duplicate)
                 c == ColIndex(d, c_is_duplicate)
             IN  [d EXCEPT !.rows = [k \in 1..Len(d.rows) |->
                     [d.rows[k] EXCEPT !.cells[c] = Bool(mask[k])]]]
        ELSE df

\* df[col].fillna(v, inplace=True)
FillNa(df, col, v) ==
    IF ~HasColumn(df, col) THEN df
    ELSE LET c == ColIndex(df, col)
         IN  [df EXCEPT !.rows = [k \in 1..Len(df.rows) |->
                 IF isna(df.rows[k].cells[c]) THEN [df.rows[k] EXCEPT !.cells[c] = v]
                 ELSE df.rows[k]]]

\* ForwardFill as it would be were a missing cell filled with 0.0
FillZero(df, col) == FillNa(df, col, Num(0))

\* df[col].fillna(method='ffill', inplace=True): the nearest non-null cell above
ForwardFill(df, col) ==
    IF ~HasColumn(df, col) THEN df
    ELSE LET c == ColIndex(df, col)
             Filled(k) ==
                 LET above == {j \in 1..k : notna(df.rows[j].cells[c])}
                 IN  IF above = {} THEN Null
                     ELSE df.rows[CHOOSE j \in above : \A i \in above : i <= j].cells[c]
         IN  [df EXCEPT !.rows = [k \in 1..Len(df.rows) |->
                 [df.rows[k] EXCEPT !.cells[c] = Filled(k)]]]

_handle_missing_values(df) ==
    ForwardFill(
        FillNa(FillNa(df, c_description, Str(<<"N","o"," ","d","e","s","c","r","i","p","t","i","o","n">>)),
               c_transaction_type, Str(<<"u","n","k","n","o","w","n">>)),
        c_balance)

\* pd.to_datetime(v, errors='coerce') of one cell
ToDatetimeCoerce(v) ==
    CASE v.t = "ts"      -> v
      [] v.t = "datestr" -> Ts(v.n)
      [] OTHER           -> Null

_normalize_dates(df) ==
    IF ~HasColumn(df, c_transaction_date) THEN df
    ELSE LET c == ColIndex(df, c_transaction_date)
         IN  [df EXCEPT !.rows = [k \in 1..Len(df.rows) |->
                 [df.rows[k] EXCEPT !.cells[c] = ToDatetimeCoerce(@)]]]

\* the columns the per-row loop reads with row.get / row[...] in an `if`
cleaned_columns ==
    <<c_transaction_id, c_amount, c_status, c_transaction_type, c_description,
      c_currency, c_customer_id>>

\* the node raises: a column the loop tests is there twice (a Series in an `if`),
\* df.duplicated has no transaction_id to look at, or transaction_date is there
\* twice, so that pd.to_datetime is handed a DataFrame
CleaningRaises(df) ==
    \/ /\ Len(df.rows) > 0
       /\ \E i \in 1..Len(cleaned_columns) : IsDuplicated(df, cleaned_columns[i])
    \/ ~HasColumn(df, c_transaction_id)
    \/ IsDuplicated(df, c_transaction_date)

\* the metrics dict; modification_rate in hundredths of a percent
CleaningMetrics(total_rows, rows_modified, cleaning_log) ==
    LET Count(i) == Len(cleaning_log[i].actions)
        Sum[i \in 0..Len(cleaning_log)] == IF i = 0 THEN 0 ELSE Sum[i - 1] + Count(i)
    IN  [total_rows |-> total_rows,
         rows_modified |-> rows_modified,
         modification_rate |-> IF total_rows > 0 THEN RoundPct(rows_modified, total_rows)
                               ELSE 0,
         cleaning_actions_count |-> Sum[Len(cleaning_log)]]

\* CleaningNode.execute
CleaningNode_execute(dataframe) ==
    IF CleaningRaises(dataframe) THEN Raised("cleaning")
    ELSE LET Cleaned(st, df) ==
                 [success |-> TRUE, node_id |-> "cleaning_node",
                  dataframe |-> df,
                  metrics |-> CleaningMetrics(Len(df.rows), st.rows_modified,
                                              st.cleaning_log),
                  cleaning_log |-> Take(st.cleaning_log, CleaningLogCap)]
             Finish(st) ==
                 Cleaned(st, _normalize_dates(_handle_missing_values(
                                 _handle_duplicates(st.df))))
             Loop(df0) ==
                 Finish(CleaningLoop(df0, 1, [df |-> df0, rows_modified |-> 0,
                                              cleaning_log |-> <<>>]))
         IN  Loop(SetColumn(SetColumn(SetColumn(dataframe,
                      c_original_values, PyDict(<<>>)),
                      c_cleaning_actions, PyList(<<>>)),
                      c_was_cleaned, Bool(FALSE)))

(***************************************************************************)
(* AnomalyDetectorNode (nodes/anomaly_detector_node.py).  Confidences are  *)
(* held in hundredths (95 is 0.95).  An anomaly dict keeps the keys the    *)
(* pipeline reads; "context" and "llm_explanation" are left out, and a     *)
(* description is its fixed text.                                          *)
(***************************************************************************)
\* AnomalyDetectorNode.__init__: confidence_threshold = 0.75
confidence_threshold == 75

\* sample_size = min(100, len(df))
SampleCap == 100

\* amount > 1000000, in thousandths
HighAmount == 1000000000

\* float(a) < float(b), float(a) > float(b), float(a) != float(b) on PyFloat values:
\* every comparison with NaN is false, except != which is true
FloatLt(a, b) == a.t = "num" /\ b.t = "num" /\ a.n < b.n

FloatNe(a, b) == ~(a.t = "num" /\ b.t = "num" /\ a.n = b.n)

\* pd.notna(balance) and float(balance) raises, or float(amount) raises
RuleRowRaises(df, row) ==
    LET balance == RowGet(df, row, c_balance)
        amount  == RowGet(df, row, c_amount)
    IN  \/ notna(balance) /\ ~PyFloat(balance).ok
        \/ HasColumn(df, c_amount) /\ ~PyFloat(amount).ok

\* the anomalies one row yields, in the order of the rules
RowAnomalies(df, row) ==
    LET required_fields == <<c_transaction_id, c_customer_id, c_amount, c_status>>
        Missing(f) == isna(RowGet(df, row, f))
        Rules(balance, txn, amount, status, fbal, missing_fields, base) ==
            (IF /\ notna(balance)
                /\ FloatLt(fbal, Num(0))
                /\ status = <<"c","o","m","p","l","e","t","e","d">>
             THEN <<base @@
                     [anomaly_type |-> "negative_balance", severity |-> "high",
                      confidence |-> 95,
                      description |-> "Negative balance with completed transaction status",
                      field_name |-> "balance", original_value |-> PyStr(balance)]>>
             ELSE <<>>)
         \o (IF FloatLt(Num(HighAmount), amount)
             THEN <<base @@
                     [anomaly_type |-> "suspicious_amount", severity |-> "medium",
                      confidence |-> 80,
                      description |-> "Unusually high transaction amount",
                      field_name |-> "amount", original_value |-> PyStr(amount)]>>
             ELSE IF amount.t = "num" /\ amount.n = 0
             THEN <<base @@
                     [anomaly_type |-> "suspicious_amount", severity |-> "low",
                      confidence |-> 70,
                      description |-> "Zero amount transaction",
                      field_name |-> "amount", original_value |-> <<"0">>]>>
             ELSE <<>>)
         \o (IF /\ status = <<"f","a","i","l","e","d">>
                /\ FloatLt(Num(0), amount)
                /\ notna(balance)
                /\ FloatNe(fbal, amount)
             THEN <<base @@
                     [anomaly_type |-> "status_mismatch", severity |-> "high",
                      confidence |-> 90,
                      description |-> "Failed transaction with balance change",
                      field_name |-> "status",
                      original_value |-> PyStr(RowGet(df, row, c_status))]>>
             ELSE <<>>)
         \o (IF HasColumn(df, c_is_duplicate) /\ RowGet(df, row, c_is_duplicate) = Bool(TRUE)
             THEN <<base @@
                     [anomaly_type |-> "duplicate_transaction", severity |-> "medium",
                      confidence |-> 100,
                      description |-> "Duplicate transaction ID found",
                      field_name |-> "transaction_id", original_value |-> PyStr(txn)]>>
             ELSE <<>>)
         \o (IF missing_fields # <<>>
             THEN <<base @@
                     [anomaly_type |-> "missing_required_field", severity |-> "critical",
                      confidence |-> 100,
                      description |-> "Missing required fields",
                      field_name |-> "multiple", original_value |-> missing_fields]>>
             ELSE <<>>)
    IN  Rules(RowGet(df, row, c_balance),
              RowGet(df, row, c_transaction_id),
              \* row.get('amount', 0) and row.get('status', ''): the default only
              \* when there is no such column
              IF HasColumn(df, c_amount) THEN PyFloat(RowGet(df, row, c_amount)).v
              ELSE Num(0),
              IF HasColumn(df, c_status) THEN Lower(PyStr(RowGet(df, row, c_status)))
              ELSE <<>>,
              PyFloat(RowGet(df, row, c_balance)).v,
              SelectSeq(required_fields, Missing),
              [row_index |-> row.idx,
               transaction_id |-> RowGet(df, row, c_transaction_id),
               detected_by |-> "rule-based"])

RECURSIVE RuleLoop(_, _, _)
RuleLoop(df, k, anomalies) ==
    IF k > Len(df.rows) THEN anomalies
    ELSE RuleLoop(df, k + 1, anomalies \o RowAnomalies(df, df.rows[k]))

\* the rule loop raises: float() of a balance or an amount that is no number, or
\* balance is there twice (a Series in an `if`)
RuleBasedRaises(df) ==
    /\ Len(df.rows) > 0
    /\ \/ IsDuplicated(df, c_balance)
       \/ \E k \in 1..Len(df.rows) : RuleRowRaises(df, df.rows[k])

\* AnomalyDetectorNode._rule_based_detection
_rule_based_detection(df) == RuleLoop(df, 1, <<>>)

\* {}: the empty dict
EmptyDict == <<>>

\* WatsonxClient.detect_anomaly: the parsed answer of the completion service.  A
\* response is [fails, is_anomaly, confidence, anomaly_type, severity]; a call that
\* fails is caught and answered "no anomaly".
\* detect_anomaly as it would be were a failed call reported as a certain anomaly
detect_anomaly_flags_failure(response) ==
    IF response.fails
    THEN [is_anomaly |-> TRUE, confidence |-> 100]
    ELSE [is_anomaly |-> response.is_anomaly, confidence |-> response.confidence,
          anomaly_type |-> response.anomaly_type, severity |-> response.severity]

detect_anomaly(response) ==
    IF response.fails
    THEN [is_anomaly |-> FALSE, confidence |-> 0]
    ELSE [is_anomaly |-> response.is_anomaly, confidence |-> response.confidence,
          anomaly_type |-> response.anomaly_type, severity |-> response.severity]

\* _llm_detection as it would be without the test against confidence_threshold
_llm_detection_unthresholded(idx, transaction_id, response) ==
    LET result == detect_anomaly(response)
    IN  IF result.is_anomaly
        THEN [row_index |-> idx,
              transaction_id |-> transaction_id,
              anomaly_type |-> IF "anomaly_type" \in DOMAIN result THEN result.anomaly_type
                               ELSE "semantic_inconsistency",
              severity |-> IF "severity" \in DOMAIN result THEN result.severity
                           ELSE "medium",
              confidence |-> result.confidence,
              detected_by |-> "watsonx-llm",
              description |-> "Semantic inconsistency detected"]
        ELSE EmptyDict

\* AnomalyDetectorNode._llm_detection
_llm_detection(idx, transaction_id, response) ==
    LET result == detect_anomaly(response)
    IN  IF result.is_anomaly /\ result.confidence >= confidence_threshold
        THEN [row_index |-> idx,
              transaction_id |-> transaction_id,
              anomaly_type |-> IF "anomaly_type" \in DOMAIN result THEN result.anomaly_type
                               ELSE "semantic_inconsistency",
              severity |-> IF "severity" \in DOMAIN result THEN result.severity
                           ELSE "medium",
              confidence |-> result.confidence,
              detected_by |-> "watsonx-llm",
              description |-> "Semantic inconsistency detected"]
        ELSE EmptyDict

\* result.get('is_anomaly') on a gathered result.  An accepted anomaly dict has no
\* 'is_anomaly' key; only the client's own answer has.
\* ResultIsAnomaly as it would be were every non-empty result taken
ResultIsAccepted(result) == result # <<>>

ResultIsAnomaly(result) ==
    IF "is_anomaly" \in DOMAIN result THEN result.is_anomaly ELSE FALSE

\* the loop over llm_results: st is [df, anomalies_detected]
RECURSIVE GatherLoop(_, _, _)
GatherLoop(llm_results, k, st) ==
    IF k > Len(llm_results) THEN st
    ELSE LET result == llm_results[k]
         IN  GatherLoop(llm_results, k + 1,
                 IF ResultIsAnomaly(result)
                 THEN [df |-> SetAt(st.df, result.row_index, c_is_anomaly, Bool(TRUE)),
                       anomalies_detected |-> Append(st.anomalies_detected, result)]
                 ELSE st)

\* for anomaly in rule_based_anomalies: df.at[idx, 'is_anomaly'] = True
RECURSIVE MarkLoop(_, _, _)
MarkLoop(anomalies, k, df) ==
    IF k > Len(anomalies) THEN df
    ELSE MarkLoop(anomalies, k + 1, SetAt(df, anomalies[k].row_index, c_is_anomaly, Bool(TRUE)))

\* AnomalyMetrics as it would be without the anomaly_rate key
AnomalyMetricsNoRate(total_rows, anomalies_detected, rule_based_anomalies) ==
    [total_rows |-> total_rows,
     anomalies_detected |-> Len(anomalies_detected),
     rule_based_count |-> Len(rule_based_anomalies)]

\* the metrics dict; anomaly_rate in hundredths of a percent
AnomalyMetrics(total_rows, anomalies_detected, rule_based_anomalies) ==
    LET Llm(a) == a.detected_by = "watsonx-llm"
    IN  [total_rows |-> total_rows,
         anomalies_detected |-> Len(anomalies_detected),
         anomaly_rate |-> IF total_rows > 0
                          THEN RoundPct(Len(anomalies_detected), total_rows) ELSE 0,
         rule_based_count |-> Len(rule_based_anomalies),
         llm_detected_count |-> Len(SelectSeq(anomalies_detected, Llm))]

\* AnomalyDetectorNode.execute from `for result in llm_results` on: the results of
\* the gathered tasks are merged after the rule-based anomalies
\* the end of execute as it would be without the loops that set is_anomaly
AnomalyMergeUnmarked(df, rule_based_anomalies, llm_results) ==
    [success |-> TRUE, node_id |-> "anomaly_detector_node",
     dataframe |-> df,
     metrics |-> AnomalyMetrics(Len(df.rows), rule_based_anomalies,
                                rule_based_anomalies),
     anomalies |-> rule_based_anomalies]

AnomalyMerge(df, rule_based_anomalies, llm_results) ==
    LET Detected(st, marked) ==
            [success |-> TRUE, node_id |-> "anomaly_detector_node",
             dataframe |-> marked,
             metrics |-> AnomalyMetrics(Len(marked.rows), st.anomalies_detected,
                                        rule_based_anomalies),
             anomalies |-> st.anomalies_detected]
        Mark(st) == Detected(st, MarkLoop(rule_based_anomalies, 1, st.df))
    IN  Mark(GatherLoop(llm_results, 1,
                        [df |-> df, anomalies_detected |-> rule_based_anomalies]))

(***************************************************************************)
(* IngestionNode (nodes/ingestion_node.py).  A source is                   *)
(* [source_type, fetch, shape, columns, cells]: what the read of the file, *)
(* the query or the endpoint gives (fetch = "error" when it raises), the   *)
(* JSON shape of an API body, and the table read from it with its original *)
(* column names.                                                           *)
(***************************************************************************)
c_date == <<"d","a","t","e">>

\* column_mappings as it would be were 'customer' renamed to the synonym 'cust_id'
ChainedMappings ==
    { <<<<"c","u","s","t","_","i","d">>, <<"c","u","s","t","o","m","e","r","_","i","d">>>>,
      <<<<"c","u","s","t","o","m","e","r">>, <<"c","u","s","t","_","i","d">>>>,
      <<<<"i","d">>, <<"t","r","a","n","s","a","c","t","i","o","n","_","i","d">>>>,
      <<<<"a","m","t">>, <<"a","m","o","u","n","t">>>> }

column_mappings ==
    { <<<<"t","x","n","_","i","d">>, <<"t","r","a","n","s","a","c","t","i","o","n","_","i","d">>>>,
      <<<<"t","r","a","n","s","_","i","d">>, <<"t","r","a","n","s","a","c","t","i","o","n","_","i","d">>>>,
      <<<<"i","d">>, <<"t","r","a","n","s","a","c","t","i","o","n","_","i","d">>>>,
      <<<<"c","u","s","t","_","i","d">>, <<"c","u","s","t","o","m","e","r","_","i","d">>>>,
      <<<<"c","u","s","t","o","m","e","r">>, <<"c","u","s","t","o","m","e","r","_","i","d">>>>,
      <<<<"a","m","t">>, <<"a","m","o","u","n","t">>>>,
      <<<<"t","x","n","_","a","m","o","u","n","t">>, <<"a","m","o","u","n","t">>>>,
      <<<<"t","r","a","n","s","_","d","a","t","e">>, <<"t","r","a","n","s","a","c","t","i","o","n","_","d","a","t","e">>>>,
      <<<<"t","x","n","_","d","a","t","e">>, <<"t","r","a","n","s","a","c","t","i","o","n","_","d","a","t","e">>>>,
      <<<<"d","a","t","e">>, <<"t","r","a","n","s","a","c","t","i","o","n","_","d","a","t","e">>>>,
      <<<<"t","y","p","e">>, <<"t","r","a","n","s","a","c","t","i","o","n","_","t","y","p","e">>>>,
      <<<<"t","x","n","_","t","y","p","e">>, <<"t","r","a","n","s","a","c","t","i","o","n","_","t","y","p","e">>>>,
      <<<<"d","e","s","c">>, <<"d","e","s","c","r","i","p","t","i","o","n">>>>,
      <<<<"t","x","n","_","d","e","s","c">>, <<"d","e","s","c","r","i","p","t","i","o","n">>>> }

\* str.replace(' ', '_').replace('-', '_') after str.lower()
StandardName(name) ==
    LET low == Lower(name)
    IN  [i \in 1..Len(low) |-> IF low[i] \in {" ", "-"} THEN "_" ELSE low[i]]

\* IngestionNode._standardize_columns, on the column names
_standardize_columns(columns) ==
    [i \in 1..Len(columns) |-> MapGet(column_mappings, StandardName(columns[i]))]

\* pd.read_csv(..., parse_dates=['date', 'transaction_date']) raises when either
\* column is not in the file's header; the last encoding's error is re-raised
_ingest_csv_raises(source) ==
    \/ source.fetch = "error"
    \/ ~\E i \in 1..Len(source.columns) : source.columns[i] = c_date
    \/ ~\E i \in 1..Len(source.columns) : source.columns[i] = c_transaction_date

_ingest_sql_raises(source) == source.fetch = "error"

\* a list, or a dict (its 'data', its 'records', or the dict as one row), is taken;
\* anything else is "Unexpected API response format"
_ingest_api_raises(source) ==
    \/ source.fetch = "error"
    \/ source.shape \notin {"list", "data", "records", "object"}

\* the try block of IngestionNode.execute raises
IngestionRaises(source) ==
    CASE source.source_type = "csv" -> _ingest_csv_raises(source)
      [] source.source_type = "sql" -> _ingest_sql_raises(source)
      [] source.source_type = "api" -> _ingest_api_raises(source)
      [] OTHER -> TRUE   \* ValueError: Unsupported source type

\* the DataFrame read from the source: a RangeIndex, the columns standardized
IngestedFrame(source) ==
    [columns |-> _standardize_columns(source.columns),
     rows    |-> [k \in 1..Len(source.cells) |-> [idx |-> k - 1, cells |-> source.cells[k]]]]

\* IngestionNode.execute: every exception is caught and returned as a failure
IngestionNode_execute(source) ==
    IF IngestionRaises(source)
    THEN [success |-> FALSE, node_id |-> "ingestion_node",
          error |-> "ingestion error",
          dataframe |-> [columns |-> <<>>, rows |-> <<>>]]
    ELSE LET df == IngestedFrame(source)
         IN  [success |-> TRUE, node_id |-> "ingestion_node",
              source_type |-> source.source_type,
              rows_ingested |-> Len(df.rows),
              columns |-> df.columns,
              dataframe |-> df,
              metadata |-> [shape |-> <<Len(df.rows), Len(df.columns)>>]]

(***************************************************************************)
(* DataPipeline (pipeline.py).                                             *)
(***************************************************************************)
VARIABLES
    source,               \* the arguments of execute_full_pipeline: what is ingested
    pc,                   \* the stage execute_full_pipeline is about to run
    pipeline_results,     \* the dict it builds and returns
    ingestion_result,     \* the node results it keeps as locals
    validation_result,
    cleaning_result,
    anomaly_result,
    dataframe,            \* its local `dataframe`
    rule_based_anomalies, \* AnomalyDetectorNode.execute: its locals while it
    sample_indices,       \*   awaits the gathered completion calls
    llm_results,
    llm_responses,        \* what the completion service answered each call
    trace                 \* the stages begun and ended so far, in order

\* api/v1/ingestion.py and api/v1/pipelines.py: the run registry
VARIABLES
    active_pipelines,     \* the module-level dict: pipeline_id -> entry
    created,              \* history: the entry each handler stored for its run
    deleted               \* history: the ids delete_pipeline has removed

registry == <<active_pipelines, created, deleted>>

vars == <<source, pc, pipeline_results, ingestion_result, validation_result,
          cleaning_result, anomaly_result, dataframe, rule_based_anomalies,
          sample_indices, llm_results, llm_responses, trace,
          active_pipelines, created, deleted>>

\* no request has reached the API
EmptyRegistry ==
    /\ active_pipelines = <<>>
    /\ created = <<>>
    /\ deleted = {}

\* a local that is not assigned yet
Unset == [unset |-> TRUE]

\* result.get("success")
Success(result) == "success" \in DOMAIN result /\ result.success

\* the result of an awaited completion call that has not returned yet
Pending == [pending |-> TRUE]

EmptyFrame == [columns |-> <<>>, rows |-> <<>>]

\* execute_full_pipeline's pipeline_results before the try block
InitialResults ==
    [pipeline_id |-> "pipeline-1", status |-> "running", stages |-> <<>>,
     overall_metrics |-> <<>>, errors |-> <<>>]

\* StageFailed as it would be were the overall metrics filled in on failure too
StageFailedWithMetrics(results, stage, result) ==
    [results EXCEPT !.status = "failed",
                    !.errors = Append(@, [stage |-> stage, error |-> result.error]),
                    !.overall_metrics = [anomalies_detected |-> 0]]

\* StageFailed as it would be were the errors record never appended
StageFailedUnrecorded(results, stage, result) ==
    [results EXCEPT !.status = "failed"]

\* if not <stage>_result.get("success"): the failure is recorded under the stage
StageFailed(results, stage, result) ==
    [results EXCEPT !.status = "failed",
                    !.errors = Append(@, [stage |-> stage, error |-> result.error])]

\* ExceptionHandler as it would be were the status left as it is
ExceptionHandlerKeepsStatus(results, e) ==
    [results EXCEPT !.errors = Append(@, [stage |-> "pipeline", error |-> e])]

\* except Exception as e: the failure is recorded under "pipeline"
ExceptionHandler(results, e) ==
    [results EXCEPT !.status = "failed",
                    !.errors = Append(@, [stage |-> "pipeline", error |-> e])]

\* WithStage as it would be were the stages dict replaced by the new entry
WithStageAlone(results, stage, entry) ==
    [results EXCEPT !.stages = (stage :> entry)]

\* pipeline_results["stages"][stage] = entry
WithStage(results, stage, entry) ==
    [results EXCEPT !.stages = (stage :> entry) @@ @]

Event(ev, stage) == [ev |-> ev, stage |-> stage]

\* lines 46-69: stage 1
RunIngestion ==
    /\ pc = "ingestion"
    /\ \E result \in {IngestionNode_execute(source)} :
           /\ ingestion_result' = result
           /\ trace' = trace \o <<Event("begin", "ingestion"), Event("end", "ingestion")>>
           /\ IF ~Success(result)
              THEN /\ pipeline_results' = StageFailed(pipeline_results, "ingestion", result)
                   /\ pc' = "returned"
                   /\ UNCHANGED dataframe
              ELSE /\ pipeline_results' =
                          WithStage(pipeline_results, "ingestion",
                                    [status |-> "completed", metrics |-> result.metadata])
                   /\ dataframe' = result.dataframe
                   /\ pc' = "validation"
    /\ UNCHANGED <<source, validation_result, cleaning_result, anomaly_result,
                   rule_based_anomalies, sample_indices, llm_results, llm_responses>>
    /\ UNCHANGED registry

\* lines 71-88: stage 2
RunValidation ==
    /\ pc = "validation"
    /\ \E result \in {ValidationNode_execute(dataframe)} :
           IF IsRaised(result)
           THEN /\ pipeline_results' = ExceptionHandler(pipeline_results, result.raised)
                /\ trace' = trace \o <<Event("begin", "validation"),
                                       Event("raise", "validation")>>
                /\ pc' = "returned"
                /\ UNCHANGED <<validation_result, dataframe>>
           ELSE /\ validation_result' = result
                /\ trace' = trace \o <<Event("begin", "validation"),
                                       Event("end", "validation")>>
                /\ IF ~Success(result)
                   THEN /\ pipeline_results' =
                               StageFailed(pipeline_results, "validation", result)
                        /\ pc' = "returned"
                        /\ UNCHANGED dataframe
                   ELSE /\ pipeline_results' =
                               WithStage(pipeline_results, "validation",
                                         [status |-> "completed", metrics |-> result.metrics])
                        /\ dataframe' = result.dataframe
                        /\ pc' = "cleaning"
    /\ UNCHANGED <<source, ingestion_result, cleaning_result, anomaly_result,
                   rule_based_anomalies, sample_indices, llm_results, llm_responses>>
    /\ UNCHANGED registry

\* lines 90-107: stage 3
RunCleaning ==
    /\ pc = "cleaning"
    /\ \E result \in {CleaningNode_execute(dataframe)} :
           IF IsRaised(result)
           THEN /\ pipeline_results' = ExceptionHandler(pipeline_results, result.raised)
                /\ trace' = trace \o <<Event("begin", "cleaning"),
                                       Event("raise", "cleaning")>>
                /\ pc' = "returned"
                /\ UNCHANGED <<cleaning_result, dataframe>>
           ELSE /\ cleaning_result' = result
                /\ trace' = trace \o <<Event("begin", "cleaning"), Event("end", "cleaning")>>
                /\ IF ~Success(result)
                   THEN /\ pipeline_results' =
                               StageFailed(pipeline_results, "cleaning", result)
                        /\ pc' = "returned"
                        /\ UNCHANGED dataframe
                   ELSE /\ pipeline_results' =
                               WithStage(pipeline_results, "cleaning",
                                         [status |-> "completed", metrics |-> result.metrics])
                        /\ dataframe' = result.dataframe
                        /\ pc' = "anomaly_detection"
    /\ UNCHANGED <<source, ingestion_result, validation_result, anomaly_result,
                   rule_based_anomalies, sample_indices, llm_results, llm_responses>>
    /\ UNCHANGED registry

\* a bound on the model: the rows of an ingested table
MaxRows == 2

\* the answers of the completion service the model tries for each call
Responses ==
    { [fails |-> TRUE,  is_anomaly |-> FALSE, confidence |-> 0,
       anomaly_type |-> "other", severity |-> "medium"],
      [fails |-> FALSE, is_anomaly |-> FALSE, confidence |-> 90,
       anomaly_type |-> "other", severity |-> "low"],
      [fails |-> FALSE, is_anomaly |-> TRUE,  confidence |-> 90,
       anomaly_type |-> "suspicious_amount", severity |-> "high"],
      [fails |-> FALSE, is_anomaly |-> TRUE,  confidence |-> 50,
       anomaly_type |-> "other", severity |-> "medium"],
      \* 'CONFIDENCE: 95', 'ANOMALY_TYPE: Fraud', 'SEVERITY: URGENT':
      \* _parse_anomaly_response takes float() of the one and lower-cases the others
      [fails |-> FALSE, is_anomaly |-> TRUE,  confidence |-> 9500,
       anomaly_type |-> "fraud", severity |-> "urgent"] }

\* df.sample(n=min(100, len(df)), random_state=42).index: some sequence of that
\* many distinct row labels (the seed fixes which; the model tries each)
Samples(df) ==
    LET n == Len(df.rows)
        m == IF n < SampleCap THEN n ELSE SampleCap
    IN  { [k \in 1..m |-> df.rows[p[k]].idx] :
            p \in {q \in [1..m -> 1..n] : \A i, j \in 1..m : i # j => q[i] # q[j]} }

IsPending(result) == "pending" \in DOMAIN result

\* lines 109-110 and AnomalyDetectorNode.execute up to the await of asyncio.gather
BeginAnomalyDetection ==
    /\ pc = "anomaly_detection"
    /\ \E df \in {SetColumn(dataframe, c_is_anomaly, Bool(FALSE))} :
           IF RuleBasedRaises(df)
           THEN /\ pipeline_results' = ExceptionHandler(pipeline_results, "anomaly_detection")
                /\ trace' = trace \o <<Event("begin", "anomaly_detection"),
                                       Event("raise", "anomaly_detection")>>
                /\ pc' = "returned"
                /\ UNCHANGED <<rule_based_anomalies, sample_indices, llm_results, llm_responses>>
           ELSE /\ rule_based_anomalies' = _rule_based_detection(df)
                /\ \E sample \in Samples(df) :
                       /\ sample_indices' = sample
                       /\ llm_results' = [k \in 1..Len(sample) |-> Pending]
                       /\ llm_responses' = [k \in 1..Len(sample) |-> Pending]
                /\ trace' = Append(trace, Event("begin", "anomaly_detection"))
                /\ pc' = "llm_gather"
                /\ UNCHANGED pipeline_results
    /\ UNCHANGED <<source, ingestion_result, validation_result, cleaning_result,
                   anomaly_result, dataframe>>
    /\ UNCHANGED registry

\* the row labelled idx, as df.loc[idx]
RowAt(df, idx) == df.rows[CHOOSE k \in 1..Len(df.rows) : df.rows[k].idx = idx]

\* LLMTaskComplete as it would be were the results kept in the order in which the
\* calls return: the result goes to the first free slot
LLMTaskCompleteInArrivalOrder ==
    /\ pc = "llm_gather"
    /\ \E k \in 1..Len(llm_results) :
           /\ IsPending(llm_responses[k])
           /\ \E response \in Responses :
                  /\ llm_responses' = [llm_responses EXCEPT ![k] = response]
                  /\ llm_results' =
                         [llm_results EXCEPT
                             ![CHOOSE j \in 1..Len(llm_results) :
                                   /\ IsPending(llm_results[j])
                                   /\ \A i \in 1..(j - 1) : ~IsPending(llm_results[i])] =
                             _llm_detection(sample_indices[k],
                                 RowGet(dataframe, RowAt(dataframe, sample_indices[k]),
                                        c_transaction_id),
                                 response)]
    /\ UNCHANGED <<source, pc, pipeline_results, ingestion_result, validation_result,
                   cleaning_result, anomaly_result, dataframe, rule_based_anomalies,
                   sample_indices, trace>>
    /\ UNCHANGED registry

\* one of the gathered _llm_detection calls returns
LLMTaskComplete ==
    /\ pc = "llm_gather"
    /\ \E k \in 1..Len(llm_results) :
           /\ IsPending(llm_results[k])
           /\ \E response \in Responses :
                  /\ llm_responses' = [llm_responses EXCEPT ![k] = response]
                  /\ llm_results' =
                         [llm_results EXCEPT ![k] =
                             _llm_detection(sample_indices[k],
                                 RowGet(dataframe, RowAt(dataframe, sample_indices[k]),
                                        c_transaction_id),
                                 response)]
    /\ UNCHANGED <<source, pc, pipeline_results, ingestion_result, validation_result,
                   cleaning_result, anomaly_result, dataframe, rule_based_anomalies,
                   sample_indices, trace>>
    /\ UNCHANGED registry

\* GatherDone as it would be were the first call to return awaited, not all
FirstTaskDone ==
    llm_results = <<>> \/ \E k \in 1..Len(llm_results) : ~IsPending(llm_results[k])

\* every gathered call has returned
GatherDone == \A k \in 1..Len(llm_results) : ~IsPending(llm_results[k])

\* asyncio.gather returns: the rest of AnomalyDetectorNode.execute, lines 112-127
FinishAnomalyDetection ==
    /\ pc = "llm_gather"
    /\ GatherDone
    /\ \E result \in {AnomalyMerge(SetColumn(dataframe, c_is_anomaly, Bool(FALSE)),
                                    rule_based_anomalies, llm_results)} :
           /\ anomaly_result' = result
           /\ trace' = Append(trace, Event("end", "anomaly_detection"))
           /\ IF ~Success(result)
              THEN /\ pipeline_results' =
                          StageFailed(pipeline_results, "anomaly_detection", result)
                   /\ pc' = "returned"
                   /\ UNCHANGED dataframe
              ELSE /\ pipeline_results' =
                          WithStage(pipeline_results, "anomaly_detection",
                                    [status |-> "completed", metrics |-> result.metrics,
                                     anomalies |-> result.anomalies])
                   /\ dataframe' = result.dataframe
                   /\ pc' = "review"
    /\ UNCHANGED <<source, ingestion_result, validation_result, cleaning_result,
                   rule_based_anomalies, sample_indices, llm_results, llm_responses>>
    /\ UNCHANGED registry

\* dataframe.isnull().sum().sum()
NullCells(df) ==
    Cardinality({<<k, c>> \in (1..Len(df.rows)) \X (1..Len(df.columns)) :
                    isna(df.rows[k].cells[c])})

\* a subscript of _compute_review_metrics has no such key
ReviewRaises(validation, cleaning, anomaly) ==
    \/ "metrics" \notin DOMAIN validation
    \/ "metrics" \notin DOMAIN cleaning
    \/ "metrics" \notin DOMAIN anomaly
    \/ {"valid_rows", "validation_rate", "error_count"} \ DOMAIN validation.metrics # {}
    \/ "modification_rate" \notin DOMAIN cleaning.metrics
    \/ "anomaly_rate" \notin DOMAIN anomaly.metrics

\* _compute_review_metrics as it would be were no anomaly penalty subtracted
_compute_review_metrics_no_penalty(df, ingestion, validation, cleaning, anomaly) ==
    LET total_rows    == Len(df.rows)
        anomaly_count == IF "anomalies" \in DOMAIN anomaly THEN Len(anomaly.anomalies) ELSE 0
    IN  [quality_score |-> IF total_rows > 0
                           THEN RoundPct(validation.metrics.valid_rows, total_rows) ELSE 0,
         completeness_score |-> IF total_rows * Len(df.columns) > 0
                                THEN RoundPct(total_rows * Len(df.columns) - NullCells(df),
                                              total_rows * Len(df.columns))
                                ELSE 0,
         validation_rate |-> validation.metrics.validation_rate,
         anomaly_rate |-> anomaly.metrics.anomaly_rate,
         cleaning_rate |-> cleaning.metrics.modification_rate,
         total_errors |-> validation.metrics.error_count + anomaly_count,
         improvement_percentage |-> cleaning.metrics.modification_rate]

\* DataPipeline._compute_review_metrics; scores and rates in hundredths of a percent
_compute_review_metrics(df, ingestion, validation, cleaning, anomaly) ==
    LET total_rows    == Len(df.rows)
        valid_rows    == validation.metrics.valid_rows
        anomaly_count == IF "anomalies" \in DOMAIN anomaly THEN Len(anomaly.anomalies) ELSE 0
        total_cells   == total_rows * Len(df.columns)
    IN  [quality_score |-> IF total_rows > 0 /\ valid_rows > anomaly_count
                           THEN RoundPct(valid_rows - anomaly_count, total_rows) ELSE 0,
         completeness_score |-> IF total_cells > 0
                                THEN RoundPct(total_cells - NullCells(df), total_cells)
                                ELSE 0,
         validation_rate |-> validation.metrics.validation_rate,
         anomaly_rate |-> anomaly.metrics.anomaly_rate,
         cleaning_rate |-> cleaning.metrics.modification_rate,
         total_errors |-> validation.metrics.error_count + anomaly_count,
         improvement_percentage |-> cleaning.metrics.modification_rate]

\* lines 129-141: stage 5
RunReview ==
    /\ pc = "review"
    /\ IF ReviewRaises(validation_result, cleaning_result, anomaly_result)
       THEN /\ pipeline_results' = ExceptionHandler(pipeline_results, "review")
            /\ trace' = trace \o <<Event("begin", "review"), Event("raise", "review")>>
            /\ pc' = "returned"
       ELSE /\ pipeline_results' =
                   WithStage(pipeline_results, "review",
                       [status |-> "completed",
                        metrics |-> _compute_review_metrics(dataframe, ingestion_result,
                                        validation_result, cleaning_result, anomaly_result)])
            /\ trace' = trace \o <<Event("begin", "review"), Event("end", "review")>>
            /\ pc' = "publishing"
    /\ UNCHANGED <<source, ingestion_result, validation_result, cleaning_result,
                   anomaly_result, dataframe, rule_based_anomalies, sample_indices,
                   llm_results, llm_responses>>
    /\ UNCHANGED registry

\* a bound on the model: the whole seconds a run may take
MaxDuration == 1

\* the overall_metrics dict of lines 154-162
OverallMetrics(ingestion, validation, cleaning, anomaly, review_metrics, duration) ==
    [total_rows_ingested |-> IF "rows_ingested" \in DOMAIN ingestion
                             THEN ingestion.rows_ingested ELSE 0,
     valid_rows |-> validation.metrics.valid_rows,
     invalid_rows |-> validation.metrics.invalid_rows,
     cleaned_rows |-> cleaning.metrics.rows_modified,
     anomalies_detected |-> IF "anomalies" \in DOMAIN anomaly
                            THEN Len(anomaly.anomalies) ELSE 0,
     quality_score |-> IF "quality_score" \in DOMAIN review_metrics
                       THEN review_metrics.quality_score ELSE 0,
     duration_seconds |-> duration]

\* lines 143-165: stage 6 and the return
RunPublishing ==
    /\ pc = "publishing"
    /\ \E duration \in 0..MaxDuration :
           pipeline_results' =
               [WithStage(pipeline_results, "publishing",
                          [status |-> "completed", dataframe |-> dataframe,
                           rows_published |-> Len(dataframe.rows)])
                EXCEPT !.status = "completed",
                       !.overall_metrics =
                           OverallMetrics(ingestion_result, validation_result,
                               cleaning_result, anomaly_result,
                               pipeline_results.stages["review"].metrics, duration)]
    /\ trace' = trace \o <<Event("begin", "publishing"), Event("end", "publishing")>>
    /\ pc' = "returned"
    /\ UNCHANGED <<source, ingestion_result, validation_result, cleaning_result,
                   anomaly_result, dataframe, rule_based_anomalies, sample_indices,
                   llm_results, llm_responses>>
    /\ UNCHANGED registry

(***************************************************************************)
(* The inputs the model runs the pipeline on.                              *)
(***************************************************************************)
\* every sequence of at most n elements of S
SeqsUpTo(S, n) == UNION {[1..m -> S] : m \in 0..n}

\* the header of a table that names its columns canonically
CanonicalHeader ==
    <<c_transaction_id, c_customer_id, c_amount, c_transaction_date, c_status, c_balance>>

\* the same columns under names _standardize_columns rewrites
RawHeader ==
    <<<<"T","x","n"," ","I","D">>, <<"C","u","s","t","-","I","d">>, <<"A","M","T">>, <<"D","a","t","e">>, <<"S","t","a","t","u","s">>, <<"B","a","l","a","n","c","e">>>>

\* a table without customer_id
NoCustomerHeader ==
    <<c_transaction_id, <<"c","l","i","e","n","t">>, c_amount, c_transaction_date, c_status, c_balance>>

\* a CSV file that has both columns read_csv is told to parse as dates
CsvHeader ==
    <<c_transaction_id, c_customer_id, c_amount, c_date, c_status, c_transaction_date>>

\* rows of a table with six columns: transaction_id, customer_id, amount,
\* transaction_date, status, balance
PipelineRows ==
    { <<Str(<<"T","1">>), Str(<<"C","1">>), Str(<<"1","0","0",".","5","0">>), DateStr(10), Str(<<"c","o","m","p","l","e","t","e","d">>), Num(200000)>>,
      <<Str(<<"T","2">>), Str(<<"C","1">>), Num(50000), DateStr(5), Str(<<"c","o","m","p","l","e","t","e","d">>), Num(-50000)>>,
      <<Str(<<"T","3">>), Str(<<"C","1">>), Num(0), DateStr(1), Str(<<"p","e","n","d","i","n","g">>), Null>>,
      <<Str(<<" ","t","1">>), Str(<<"C","1">>), Str(<<"(","$","1",",","2","0","0",".","5","0",")">>), DateStr(3), Str(<<"D","o","n","e">>), Null>>,
      <<Null, Null, Str(<<"a","b","c">>), Str(<<"s","o","o","n">>), Str(<<"b","o","g","u","s">>), Null>>,
      <<Str(<<"T","4">>), Str(<<"C","1">>), Str(<<"5">>), TsAware(2), Str(<<"c","o","m","p","l","e","t","e","d">>), Null>>,
      <<Str(<<"T","5">>), Str(<<"C","1">>), Str(<<"5">>), DateStr(0), Str(<<"f","a","i","l","e","d">>), Str(<<"$","5">>)>>,
      <<Str(<<"T","6">>), Str(<<"c","-","9">>), Str(<<"1","5","0","0","0","0","0">>), DateStr(-1), Str(<<"F","A","I","L","E","D">>), Num(100000)>> }

\* rows of a CSV file with the columns of CsvHeader
CsvRows ==
    { <<Str(<<"T","1">>), Str(<<"C","1">>), Str(<<"1","0","0",".","5","0">>), Ts(10), Str(<<"c","o","m","p","l","e","t","e","d">>), Ts(10)>> }

Source(source_type, fetch, shape, columns, cells) ==
    [source_type |-> source_type, fetch |-> fetch, shape |-> shape,
     columns |-> columns, cells |-> cells]

\* the sources a run is started on
Sources ==
    {Source("api", "ok", "list", h, cells) :
        h \in {CanonicalHeader, RawHeader, NoCustomerHeader},
        cells \in SeqsUpTo(PipelineRows, MaxRows)}
    \cup {Source("api", fetch, shape, CanonicalHeader, cells) :
        fetch \in {"ok", "error"},
        shape \in {"data", "records", "object", "scalar"},
        cells \in SeqsUpTo(PipelineRows, 1)}
    \cup {Source(source_type, fetch, "none", CanonicalHeader, cells) :
        source_type \in {"csv", "sql", "xml"},
        fetch \in {"ok", "error"},
        cells \in SeqsUpTo(PipelineRows, 1)}
    \cup {Source("csv", "ok", "none", CsvHeader, cells) : cells \in SeqsUpTo(CsvRows, 1)}

\* a run is created and execute_full_pipeline is called on a source
Init ==
    /\ source \in Sources
    /\ pc = "ingestion"
    /\ pipeline_results = InitialResults
    /\ ingestion_result = Unset
    /\ validation_result = Unset
    /\ cleaning_result = Unset
    /\ anomaly_result = Unset
    /\ dataframe = Unset
    /\ rule_based_anomalies = <<>>
    /\ sample_indices = <<>>
    /\ llm_results = <<>>
    /\ llm_responses = <<>>
    /\ trace = <<>>
    /\ EmptyRegistry

Next ==
    \/ RunIngestion
    \/ RunValidation
    \/ RunCleaning
    \/ BeginAnomalyDetection
    \/ LLMTaskComplete
    \/ FinishAnomalyDetection
    \/ RunReview
    \/ RunPublishing

Spec == Init /\ [][Next]_vars

(***************************************************************************)
(* The first two stages alone, on a wider family of tables: every          *)
(* combination of field values in one row, short tables of mixed rows, and *)
(* long tables whose rows fail more checks than the error list holds.      *)
(***************************************************************************)
\* a bound on the model: the rows of a short table handed to validation
MaxValRows == 3

\* a bound on the model: the rows of a long table handed to validation
MaxBulkRows == 22

\* five cells under the required columns
Row5(txn, cust, amount, date, status) == <<txn, cust, amount, date, status>>

TransactionIds == {Null, Str(<<>>), Str(<<"T","1">>), Num(7000)}

CustomerIds == {Null, Str(<<>>), Str(<<"C","1">>)}

Amounts ==
    {Null, Num(0), Num(12500), Num(-3000), Bool(TRUE), Str(<<"0",".","0">>),
     Str(<<"a","b","c">>), Str(<<" ","1","2",".","5"," ">>), Str(<<"$","5">>),
     Str(<<"n","a","n">>), Str(<<"-","0">>)}

Dates ==
    {Null, DateStr(0), DateStr(MaxAgeDays), DateStr(MaxAgeDays + 1), DateStr(-1),
     Ts(10), Ts(-1), Ts(MaxAgeDays + 1), TsAware(2), Str(<<"s","o","o","n">>), Num(5000)}

Statuses ==
    {Null, Str(<<"c","o","m","p","l","e","t","e","d">>), Str(<<"P","E","N","D","I","N","G">>),
     Str(<<"b","o","g","u","s">>), Str(<<" ","f","a","i","l","e","d">>), Num(1000)}

\* every one-row table
FieldRows ==
    {Row5(txn, cust, amount, date, status) :
        txn \in TransactionIds, cust \in CustomerIds, amount \in Amounts,
        date \in Dates, status \in Statuses}

\* a row that passes every check, one that fails every check, and rows that fail
\* one or two
GoodRow ==
    Row5(Str(<<"T","1">>), Str(<<"C","1">>), Num(12500), DateStr(10),
         Str(<<"c","o","m","p","l","e","t","e","d">>))

BadRow == Row5(Null, Null, Str(<<"a","b","c">>), Str(<<"s","o","o","n">>), Null)

MixedRows ==
    {GoodRow, BadRow,
     Row5(Str(<<"T","2">>), Str(<<"C","1">>), Num(0), DateStr(10),
          Str(<<"c","o","m","p","l","e","t","e","d">>)),
     Row5(Str(<<"T","3">>), Str(<<>>), Num(500), DateStr(-1),
          Str(<<"p","e","n","d","i","n","g">>))}

\* long tables: n rows of which the first b fail every check
BulkTables ==
    {[k \in 1..n |-> IF k <= b THEN BadRow ELSE GoodRow] :
        n \in {MaxBulkRows - 1, MaxBulkRows}, b \in 0..MaxBulkRows}

ValidationSources ==
    {Source("api", "ok", "list", required_columns, cells) :
        cells \in {<<r>> : r \in FieldRows}
                  \cup SeqsUpTo(MixedRows, MaxValRows)
                  \cup BulkTables}

InitValidation ==
    /\ source \in ValidationSources
    /\ pc = "ingestion"
    /\ pipeline_results = InitialResults
    /\ ingestion_result = Unset
    /\ validation_result = Unset
    /\ cleaning_result = Unset
    /\ anomaly_result = Unset
    /\ dataframe = Unset
    /\ rule_based_anomalies = <<>>
    /\ sample_indices = <<>>
    /\ llm_results = <<>>
    /\ llm_responses = <<>>
    /\ trace = <<>>
    /\ EmptyRegistry

NextValidation ==
    \/ RunIngestion
    \/ RunValidation

SpecValidation == InitValidation /\ [][NextValidation]_vars

(***************************************************************************)
(* What a state says about the run so far.                                 *)
(***************************************************************************)
Stages ==
    <<"ingestion", "validation", "cleaning", "anomaly_detection", "review", "publishing">>

StageNames == {Stages[i] : i \in 1..Len(Stages)}

FirstFour == {"ingestion", "validation", "cleaning", "anomaly_detection"}

StageNo(stage) == CHOOSE i \in 1..Len(Stages) : Stages[i] = stage

Began(stage) == \E i \in 1..Len(trace) : trace[i] = Event("begin", stage)

Ended(stage) == \E i \in 1..Len(trace) : trace[i] = Event("end", stage)

\* the stage threw a fault
Threw(stage) == \E i \in 1..Len(trace) : trace[i] = Event("raise", stage)

ResultOf(stage) ==
    CASE stage = "ingestion"         -> ingestion_result
      [] stage = "validation"        -> validation_result
      [] stage = "cleaning"          -> cleaning_result
      [] stage = "anomaly_detection" -> anomaly_result

\* the stage returned a result whose success is false
ReportedFailure(stage) == ResultOf(stage) # Unset /\ ~Success(ResultOf(stage))

FailedAt(stage) == Threw(stage) \/ ReportedFailure(stage)

Errors == pipeline_results.errors

StageEntries == pipeline_results.stages

\* the five checks of one row, applied to its own cells
ChecksFailed(df, row) ==
    <<~_validate_transaction_id(RowGet(df, row, c_transaction_id)),
      ~_validate_customer_id(RowGet(df, row, c_customer_id)),
      _validate_amount(RowGet(df, row, c_amount)) # "",
      _validate_date(RowGet(df, row, c_transaction_date)) # "",
      ~_validate_status(RowGet(df, row, c_status))>>

FailCount(df, row) ==
    Cardinality({i \in 1..5 : ChecksFailed(df, row)[i]})

\* the failed checks of rows 1..n of df
TotalFailCount(df) ==
    LET Sum[k \in 0..Len(df.rows)] ==
            IF k = 0 THEN 0 ELSE Sum[k - 1] + FailCount(df, df.rows[k])
    IN  Sum[Len(df.rows)]

\* C1: when one of the first four stages reports failure or throws, the run's
\* status is 'failed', the errors list holds exactly one {stage, error} record,
\* the run has returned, and no later stage was begun; a run in which none of
\* them failed or threw has no errors record from them.
C1_FailureStopsTheRun ==
    /\ \A stage \in FirstFour :
           FailedAt(stage) =>
               /\ pipeline_results.status = "failed"
               /\ Len(Errors) = 1
               /\ DOMAIN Errors[1] = {"stage", "error"}
               /\ pc = "returned"
               /\ \A i \in 1..Len(Stages) : i > StageNo(stage) => ~Began(Stages[i])
    /\ ((\A stage \in FirstFour : ~FailedAt(stage)) /\ ~Threw("review")) => Errors = <<>>

C1_Witness ==
    /\ Threw("anomaly_detection")
    /\ pipeline_results.status = "failed"
    /\ Len(Errors) = 1

\* C2: for every failed run, whether the stage returned a failure result or
\* threw, the errors list holds a record whose stage is the stage that failed.
C2_ErrorsNameTheFailedStage ==
    \A stage \in FirstFour :
        FailedAt(stage) => \E i \in 1..Len(Errors) : Errors[i].stage = stage

\* C3: execute_full_pipeline never lets a fault out: a stage that threw is
\* followed by the return of a 'failed' result, and every returned result has
\* status 'completed' or 'failed', never 'running'.
C3_ReturnsTerminalStatus ==
    /\ pc = "returned" => pipeline_results.status \in {"completed", "failed"}
    /\ \A stage \in StageNames :
           Threw(stage) => pc = "returned" /\ pipeline_results.status = "failed"

C3_Witness ==
    /\ pc = "returned"
    /\ Threw("validation")
    /\ pipeline_results.status = "failed"

\* C4: the stages run strictly in the order ingestion, validation, cleaning,
\* anomaly_detection, review, publishing: each begins only after the one before
\* it has ended, a stage that throws is the last to run, anomaly_detection has
\* ended only when every one of its completion calls has returned, and calls
\* are pending only while anomaly_detection is the one stage begun and not ended.
C4_StagesRunInOrder ==
    /\ Len(trace) <= 2 * Len(Stages)
    /\ \A i \in 1..Len(trace) :
           /\ trace[i].stage = Stages[(i + 1) \div 2]
           /\ i % 2 = 1 => trace[i].ev = "begin"
           /\ i % 2 = 0 => trace[i].ev \in {"end", "raise"}
           /\ trace[i].ev = "raise" => i = Len(trace)
    /\ Ended("anomaly_detection") =>
           \A k \in 1..Len(llm_results) : ~IsPending(llm_results[k])
    /\ (\E k \in 1..Len(llm_results) : IsPending(llm_results[k])) =>
           trace[Len(trace)] = Event("begin", "anomaly_detection")

C4_Witness ==
    /\ Ended("publishing")
    /\ Len(llm_results) = 2
    /\ Len(trace) = 2 * Len(Stages)

\* C5: whenever ingestion, validation, cleaning and anomaly_detection have all
\* reported success, review does not throw, and the run, once returned, has
\* status 'completed', no errors, and all six stage entries, each 'completed'.
C5_FourSuccessesComplete ==
    (\A stage \in FirstFour : Success(ResultOf(stage))) =>
        /\ ~Threw("review")
        /\ pc \in {"review", "publishing", "returned"}
        /\ pc = "returned" =>
               /\ pipeline_results.status = "completed"
               /\ Errors = <<>>
               /\ DOMAIN StageEntries = StageNames
               /\ \A stage \in DOMAIN StageEntries :
                      StageEntries[stage].status = "completed"
               /\ Ended("review") /\ Ended("publishing")

C5_Witness ==
    /\ pc = "returned"
    /\ pipeline_results.status = "completed"
    /\ Len(dataframe.rows) = 2
    /\ Success(anomaly_result)

\* C6: when one of the first four stages fails, the result carries a
\* 'completed' entry with the metrics of every stage before it, and no entry
\* for any stage after it.
C6_PartialStageEntries ==
    \A stage \in FirstFour :
        FailedAt(stage) =>
            \A i \in 1..Len(Stages) :
                /\ i < StageNo(stage) =>
                       /\ Stages[i] \in DOMAIN StageEntries
                       /\ StageEntries[Stages[i]].status = "completed"
                       /\ "metrics" \in DOMAIN StageEntries[Stages[i]]
                       /\ StageEntries[Stages[i]].metrics =
                              IF Stages[i] = "ingestion" THEN ingestion_result.metadata
                              ELSE ResultOf(Stages[i]).metrics
                /\ i > StageNo(stage) => Stages[i] \notin DOMAIN StageEntries

C6_Witness ==
    /\ Threw("cleaning")
    /\ pc = "returned"
    /\ DOMAIN StageEntries = {"ingestion", "validation"}

\* C7: the row labels of the dataset a stage returns - validation, cleaning,
\* anomaly detection - are, in order, those of the ingested dataset, and so are
\* those of the dataset the run carries: no row is removed, added or moved.
C7_RowsKeptInOrder ==
    /\ \A stage \in {"validation", "cleaning", "anomaly_detection"} :
           (ResultOf(stage) # Unset /\ Success(ingestion_result)) =>
               IndexOf(ResultOf(stage).dataframe) = IndexOf(ingestion_result.dataframe)
    /\ (dataframe # Unset) => IndexOf(dataframe) = IndexOf(ingestion_result.dataframe)

C7_Witness ==
    /\ Success(anomaly_result)
    /\ Len(anomaly_result.dataframe.rows) = 2
    /\ \E k \in 1..2 :
           RowGet(anomaly_result.dataframe, anomaly_result.dataframe.rows[k],
                  c_is_duplicate) = Bool(TRUE)
    /\ \E k \in 1..2 :
           RowGet(anomaly_result.dataframe, anomaly_result.dataframe.rows[k],
                  c_is_valid) = Bool(FALSE)
    /\ \E k \in 1..2 :
           RowGet(anomaly_result.dataframe, anomaly_result.dataframe.rows[k],
                  c_is_anomaly) = Bool(TRUE)

\* the ingested dataset has no column of one of the required names
LacksRequiredColumn ==
    /\ Success(ingestion_result)
    /\ \E i \in 1..Len(required_columns) :
           \A j \in 1..Len(ingestion_result.dataframe.columns) :
               ingestion_result.dataframe.columns[j] # required_columns[i]

\* C8: when the ingested dataset lacks a required column, validation returns a
\* failure carrying the list of the missing columns and the dataset as it was
\* (no row was marked), the run returns 'failed' with the one errors record
\* {stage: 'validation'}, and cleaning is never begun.
C8_MissingColumnFailsValidation ==
    (LacksRequiredColumn /\ pc \notin {"ingestion", "validation"}) =>
        /\ validation_result # Unset
        /\ ~Success(validation_result)
        /\ validation_result.error =
               SelectSeq(required_columns,
                         LAMBDA col : \A j \in 1..Len(ingestion_result.dataframe.columns) :
                                          ingestion_result.dataframe.columns[j] # col)
        /\ validation_result.dataframe = ingestion_result.dataframe
        /\ pc = "returned"
        /\ pipeline_results.status = "failed"
        /\ Len(Errors) = 1
        /\ Errors[1].stage = "validation"
        /\ Errors[1].error = validation_result.error
        /\ ~Began("cleaning")

C8_Witness ==
    /\ LacksRequiredColumn
    /\ ReportedFailure("validation")
    /\ validation_result.error = <<c_customer_id>>
    /\ Len(validation_result.dataframe.rows) = 2

\* C9: after a successful validation the dataset has the rows it had, with the
\* cells they had, every row carries is_valid, and is_valid is false exactly
\* for the rows of which at least one of the five checks fails on that row's
\* own values.
C9_IsValidIffNoCheckFails ==
    Success(validation_result) =>
        LET before == ingestion_result.dataframe
            after  == validation_result.dataframe
        IN  /\ IndexOf(after) = IndexOf(before)
            /\ \A k \in 1..Len(before.rows) :
                   /\ HasColumn(after, c_is_valid)
                   /\ RowGet(after, after.rows[k], c_is_valid) =
                          Bool(FailCount(before, before.rows[k]) = 0)
                   /\ \A c \in 1..Len(before.columns) :
                          after.rows[k].cells[c] = before.rows[k].cells[c]

C9_Witness ==
    /\ Success(validation_result)
    /\ Len(validation_result.dataframe.rows) = 3
    /\ \E j, k \in 1..3 :
           /\ RowGet(validation_result.dataframe, validation_result.dataframe.rows[j],
                     c_is_valid) = Bool(TRUE)
           /\ RowGet(validation_result.dataframe, validation_result.dataframe.rows[k],
                     c_is_valid) = Bool(FALSE)

\* what C10 says of every count but the rate
ValidationCounts ==
    LET m == validation_result.metrics
    IN  /\ m.total_rows = Len(ingestion_result.dataframe.rows)
        /\ m.valid_rows + m.invalid_rows = m.total_rows
        /\ m.valid_rows >= 0 /\ m.invalid_rows >= 0
        /\ m.error_count = TotalFailCount(ingestion_result.dataframe)
        /\ Len(validation_result.validation_errors) <= ErrorListCap
        /\ Len(validation_result.validation_errors) =
               IF m.error_count < ErrorListCap THEN m.error_count ELSE ErrorListCap

\* C10, as amended: the validation metrics satisfy valid_rows + invalid_rows =
\* total_rows, validation_rate is valid/total x 100 rounded to two decimal
\* places (0 when total is 0), error_count is the number of failed checks over
\* all rows even when more than 100 exist, and the returned validation_errors
\* list never has more than 100 entries.  validation_rate is held in hundredths
\* of a percent: it is within half a hundredth of the exact quotient.
C10_MetricsWithRoundedRate ==
    Success(validation_result) =>
        LET m == validation_result.metrics
        IN  /\ ValidationCounts
            /\ m.total_rows = 0 => m.validation_rate = 0
            /\ m.total_rows > 0 =>
                   /\ 2 * (m.validation_rate * m.total_rows - m.valid_rows * 10000)
                          <= m.total_rows
                   /\ 2 * (m.valid_rows * 10000 - m.validation_rate * m.total_rows)
                          <= m.total_rows

C10_Witness ==
    /\ Success(validation_result)
    /\ validation_result.metrics.error_count > ErrorListCap
    /\ Len(validation_result.validation_errors) = ErrorListCap
    /\ validation_result.metrics.valid_rows > 0

\* C10, as stated: validation_rate is exactly valid/total x 100.
C10_MetricsWithExactRate ==
    Success(validation_result) =>
        LET m == validation_result.metrics
        IN  /\ ValidationCounts
            /\ m.total_rows = 0 => m.validation_rate = 0
            /\ m.total_rows > 0 =>
                   m.validation_rate * m.total_rows = m.valid_rows * 10000

(***************************************************************************)
(* Ingestion alone, on tables that differ in their column names.           *)
(***************************************************************************)
\* a bound on the model: the columns of a table whose names are standardized
MaxColumns == 2

\* column names as sources spell them: synonyms in several spellings, names
\* that are canonical already, and names the synonym map does not know
ColumnNames ==
    { <<"T","x","n"," ","I","D">>, <<"t","r","a","n","s","-","i","d">>, <<"I","D">>,
      <<"C","u","s","t","-","I","d">>, <<"c","u","s","t","o","m","e","r">>,
      <<"A","M","T">>, <<"t","x","n"," ","a","m","o","u","n","t">>,
      <<"D","a","t","e">>, <<"T","x","n","_","D","a","t","e">>,
      <<"T","y","p","e">>, <<"d","e","s","c">>,
      c_transaction_id, c_customer_id, c_amount, c_transaction_date,
      c_transaction_type, c_description, c_status, c_balance,
      <<"A","c","c","o","u","n","t"," ","N","o">>, <<"T","x","n","I","d">> }

\* the names the synonym map renames to
CanonicalNames ==
    {c_transaction_id, c_customer_id, c_amount, c_transaction_date,
     c_transaction_type, c_description}

\* a query whose result has the columns h and no row
ColumnSources ==
    {Source("sql", "ok", "none", h, <<>>) : h \in SeqsUpTo(ColumnNames, MaxColumns)}

InitColumns ==
    /\ source \in ColumnSources
    /\ pc = "ingestion"
    /\ pipeline_results = InitialResults
    /\ ingestion_result = Unset
    /\ validation_result = Unset
    /\ cleaning_result = Unset
    /\ anomaly_result = Unset
    /\ dataframe = Unset
    /\ rule_based_anomalies = <<>>
    /\ sample_indices = <<>>
    /\ llm_results = <<>>
    /\ llm_responses = <<>>
    /\ trace = <<>>
    /\ EmptyRegistry

NextColumns == RunIngestion

SpecColumns == InitColumns /\ [][NextColumns]_vars

\* C11: column standardization is idempotent: the names ingestion returns are
\* left as they are by a second application of _standardize_columns, and a
\* source column whose name is canonical already keeps its name.
C11_StandardizeIsIdempotent ==
    Success(ingestion_result) =>
        /\ Len(ingestion_result.columns) = Len(source.columns)
        /\ _standardize_columns(ingestion_result.columns) = ingestion_result.columns
        /\ _standardize_columns(_standardize_columns(source.columns)) =
               _standardize_columns(source.columns)
        /\ \A i \in 1..Len(source.columns) :
               source.columns[i] \in CanonicalNames =>
                   ingestion_result.columns[i] = source.columns[i]

C11_Witness ==
    /\ Success(ingestion_result)
    /\ ingestion_result.columns = <<c_customer_id, c_transaction_id>>
    /\ source.columns = <<<<"c","u","s","t","o","m","e","r">>, c_transaction_id>>

(***************************************************************************)
(* The first three stages, on tables that carry every column the cleaning  *)
(* node looks at: one-row tables over the spellings of each field, and     *)
(* short tables whose rows share transaction ids and lack values.          *)
(***************************************************************************)
\* a bound on the model: the rows of a short table handed to cleaning
MaxCleanRows == 3

CleaningHeader ==
    <<c_transaction_id, c_customer_id, c_amount, c_transaction_date, c_status,
      c_balance, c_currency, c_transaction_type, c_description>>

\* nine cells under the columns of CleaningHeader
Row9(txn, cust, amount, date, status, balance, currency, type, desc) ==
    <<txn, cust, amount, date, status, balance, currency, type, desc>>

s_completed == <<"c","o","m","p","l","e","t","e","d">>

s_pending == <<"p","e","n","d","i","n","g">>

s_failed == <<"f","a","i","l","e","d">>

s_USD == <<"U","S","D">>

s_accounting == <<"(","$","1",",","2","0","0",".","5","0",")">>

\* amount strings float() does not take, also once the currency symbols, the
\* commas and the parentheses are dealt with
UnparsableAmounts ==
    {Str(<<"a","b","c">>), Str(<<>>), Str(<<"1",".","2",".","3">>), Str(<<"$">>)}

CleaningTransactionIds == {Str(<<"T","1">>), Str(<<" ","t","-","1","!">>), Null, Num(7000)}

CleaningAmounts ==
    UnparsableAmounts
    \cup {Str(s_accounting), Str(<<"n","a","n">>), Num(12500), Num(12346),
          Str(<<" ","$","5"," ">>), Str(<<"-","0",".","1","2","5">>), Null, PyNone}

CleaningStatuses ==
    {Str(s_completed), Str(<<"D","o","n","e">>), Str(<<" ","F","A","I","L","E","D"," ">>),
     Str(<<"b","o","g","u","s">>), Null}

CleaningTypes ==
    {Null, Str(<<"d","e","p">>), Str(<<" ","W","i","t","h","d","r","a","w","a","l">>),
     Str(<<"w","i","r","e">>), Str(<<"r","e","f","u","n","d">>)}

CleaningDescriptions == {Null, Str(<<"a"," "," ","b","#">>), Str(<<"o","k">>)}

CleaningCurrencies == {Null, Str(s_USD)}

\* every one-row table over the spellings of the canonicalized fields
SpellingRows ==
    {Row9(txn, Str(<<"C","1">>), amount, DateStr(10), status, Num(5000), currency, type, desc) :
        txn \in CleaningTransactionIds, amount \in CleaningAmounts,
        status \in CleaningStatuses, currency \in CleaningCurrencies,
        type \in CleaningTypes, desc \in CleaningDescriptions}

\* rows for the dataset-level passes: a canonical row, a second spelling of its
\* transaction id, rows without type, description, balance, currency or id
DatasetRows ==
    { Row9(Str(<<"T","1">>), Str(<<"C","1">>), Str(s_accounting), DateStr(10),
           Str(s_completed), Num(200000), Str(s_USD),
           Str(<<"d","e","p","o","s","i","t">>), Str(<<"o","k">>)),
      Row9(Str(<<" ","t","1">>), Str(<<"C","1">>), Str(<<"a","b","c">>), DateStr(5),
           Str(s_completed), Null, Str(s_USD),
           Str(<<"d","e","p","o","s","i","t">>), Null),
      Row9(Str(<<"T","2">>), Str(<<"C","1">>), Num(5000), Ts(3),
           Str(s_pending), Null, Str(s_USD), Null, Str(<<"o","k">>)),
      Row9(Null, Str(<<"C","1">>), Num(5000), Ts(3),
           Str(s_pending), Num(-50000), Null,
           Str(<<"t","r","a","n","s","f","e","r">>), Str(<<"o","k">>)),
      Row9(PyNone, Str(<<"c","-","9">>), Str(<<"7">>), Str(<<"s","o","o","n">>),
           Str(s_failed), PyNone, PyNone, PyNone, PyNone),
      Row9(Str(<<"T","1">>), Str(<<"C","1">>), Num(5000), Ts(3),
           Str(s_pending), Num(7000), Str(s_USD),
           Str(<<"t","r","a","n","s","f","e","r">>), Str(<<"o","k">>)) }

CleaningSources ==
    {Source("api", "ok", "list", CleaningHeader, cells) :
        cells \in {<<r>> : r \in SpellingRows} \cup SeqsUpTo(DatasetRows, MaxCleanRows)}

InitCleaning ==
    /\ source \in CleaningSources
    /\ pc = "ingestion"
    /\ pipeline_results = InitialResults
    /\ ingestion_result = Unset
    /\ validation_result = Unset
    /\ cleaning_result = Unset
    /\ anomaly_result = Unset
    /\ dataframe = Unset
    /\ rule_based_anomalies = <<>>
    /\ sample_indices = <<>>
    /\ llm_results = <<>>
    /\ llm_responses = <<>>
    /\ trace = <<>>
    /\ EmptyRegistry

NextCleaning ==
    \/ RunIngestion
    \/ RunValidation
    \/ RunCleaning

SpecCleaning == InitCleaning /\ [][NextCleaning]_vars

\* the dataset cleaning was given, and the one it returned
Uncleaned == validation_result.dataframe

Cleaned == cleaning_result.dataframe

\* the cell of row k under col
Cell(df, k, col) == RowGet(df, df.rows[k], col)

\* C12: the amount, status and transaction_type canonicalization functions are
\* idempotent: for every value v a row carries, clean(clean(v)) = clean(v),
\* and the cleaner leaves the value it put into the cleaned dataset unchanged.
C12_CleanersAreIdempotent ==
    Success(cleaning_result) =>
        \A k \in 1..Len(Uncleaned.rows) :
            /\ _clean_amount(_clean_amount(Cell(Uncleaned, k, c_amount))) =
                   _clean_amount(Cell(Uncleaned, k, c_amount))
            /\ _clean_status(_clean_status(Cell(Uncleaned, k, c_status))) =
                   _clean_status(Cell(Uncleaned, k, c_status))
            /\ _clean_transaction_type(
                   _clean_transaction_type(Cell(Uncleaned, k, c_transaction_type))) =
                   _clean_transaction_type(Cell(Uncleaned, k, c_transaction_type))
            /\ notna(Cell(Uncleaned, k, c_amount)) =>
                   _clean_amount(Cell(Cleaned, k, c_amount)) = Cell(Cleaned, k, c_amount)
            /\ notna(Cell(Uncleaned, k, c_status)) =>
                   _clean_status(Cell(Cleaned, k, c_status)) = Cell(Cleaned, k, c_status)
            /\ notna(Cell(Uncleaned, k, c_transaction_type)) =>
                   _clean_transaction_type(Cell(Cleaned, k, c_transaction_type)) =
                       Cell(Cleaned, k, c_transaction_type)

\* C13: cleaning turns the amount string "($1,200.50)" of a row, whatever its
\* status ('completed' among them), into the number -1200.50, and an amount
\* string that cannot be parsed into 0.0; the cleaning stage does not fail or
\* throw on either.
C13_AccountingAmountIsNegative ==
    /\ Success(cleaning_result) =>
           \A k \in 1..Len(Uncleaned.rows) :
               /\ Cell(Uncleaned, k, c_amount) = Str(s_accounting) =>
                      Cell(Cleaned, k, c_amount) = Num(-1200500)
               /\ Cell(Uncleaned, k, c_amount) \in UnparsableAmounts =>
                      Cell(Cleaned, k, c_amount) = Num(0)
    /\ Began("cleaning") => Success(cleaning_result)

C13_Witness ==
    /\ Success(cleaning_result)
    /\ \E j, k \in 1..Len(Uncleaned.rows) :
           /\ Cell(Uncleaned, j, c_amount) = Str(s_accounting)
           /\ Cell(Uncleaned, j, c_status) = Str(s_completed)
           /\ Cell(Cleaned, j, c_amount) = Num(-1200500)
           /\ Cell(Uncleaned, k, c_amount) = Str(<<"a","b","c">>)
           /\ Cell(Cleaned, k, c_amount) = Num(0)

\* the transaction id of row k of the uncleaned dataset, canonicalized; a
\* missing id is the null value, whichever way it is missing
CanonicalId(k) ==
    IF isna(Cell(Uncleaned, k, c_transaction_id)) THEN Null
    ELSE _clean_transaction_id(Cell(Uncleaned, k, c_transaction_id))

\* is_duplicate(r) is true: the column is there and the row's cell is True
FlaggedDuplicate(df, k) ==
    HasColumn(df, c_is_duplicate) /\ Cell(df, k, c_is_duplicate) = Bool(TRUE)

KeyOf(col) ==
    CASE col = c_transaction_id   -> "transaction_id"
      [] col = c_amount           -> "amount"
      [] col = c_status           -> "status"
      [] col = c_transaction_type -> "transaction_type"
      [] col = c_description      -> "description"
      [] col = c_customer_id      -> "customer_id"
      [] col = c_currency         -> "currency"
      [] col = c_balance          -> "balance"
      [] col = c_transaction_date -> "transaction_date"
      [] OTHER                    -> "other"

\* cleaning changed the value row k has in the c-th column of the dataset it
\* was given (a missing value that is still missing is not a change)
Changed(k, c) ==
    /\ ~(isna(Uncleaned.rows[k].cells[c]) /\ isna(Cleaned.rows[k].cells[c]))
    /\ Cleaned.rows[k].cells[c] # Uncleaned.rows[k].cells[c]

ChangedColumns(k) == {c \in 1..Len(Uncleaned.columns) : Changed(k, c)}

\* the old value of the c-th column of row k is on record for the row
OldValueRecorded(k, c) ==
    \E i \in 1..Len(Cell(Cleaned, k, c_original_values).s) :
        Cell(Cleaned, k, c_original_values).s[i] =
            <<KeyOf(Uncleaned.columns[c]), Uncleaned.rows[k].cells[c]>>

\* C15: after cleaning, every row of which the cleaning stage changed at least
\* one field value - in the per-row pass or in the dataset-level imputation and
\* date-coercion passes - has was_cleaned = true, carries one action
\* description per change, and has the old value of each changed field on
\* record (a value imputed where none was has no old value to record).
C15_EveryChangeIsRecorded ==
    Success(cleaning_result) =>
        \A k \in 1..Len(Uncleaned.rows) :
            ChangedColumns(k) # {} =>
                /\ Cell(Cleaned, k, c_was_cleaned) = Bool(TRUE)
                /\ Len(Cell(Cleaned, k, c_cleaning_actions).s) =
                       Cardinality(ChangedColumns(k))
                /\ \A c \in ChangedColumns(k) :
                       notna(Uncleaned.rows[k].cells[c]) => OldValueRecorded(k, c)

(***************************************************************************)
(* The whole run, on tables that differ in what the detection rules look   *)
(* at: amount, status, balance, and which required fields are missing.     *)
(***************************************************************************)
\* a bound on the model: the rows of a short table handed to anomaly detection
MaxAnomalyRows == 2

\* six cells under the columns of CanonicalHeader
Row6(txn, cust, amount, status, balance) ==
    <<txn, cust, amount, DateStr(10), status, balance>>

RuleTransactionIds == {Str(<<"T","1">>), PyNone}

RuleCustomerIds == {Str(<<"C","1">>), Null}

\* amounts: positive, negative, zero, above and at the threshold, and missing
\* as None (a JSON null in a column of strings) and as NaN
RuleAmounts ==
    {Str(<<"5">>), Str(<<"-","5">>), Num(0), Str(<<"1","5","0","0","0","0","0">>),
     Str(<<"1","0","0","0","0","0","0">>), PyNone, Null}

RuleStatuses ==
    {Str(s_failed), Str(s_completed), Str(s_pending),
     Str(<<"D","e","c","l","i","n","e","d">>), PyNone}

RuleBalances == {Null, Num(5000), Num(-50000), Num(10000)}

\* every one-row table over these
RuleRows ==
    {Row6(txn, cust, amount, status, balance) :
        txn \in RuleTransactionIds, cust \in RuleCustomerIds, amount \in RuleAmounts,
        status \in RuleStatuses, balance \in RuleBalances}

\* rows for short tables: one no rule fires on, one that fires two rules and
\* repeats the id of the first, one that fires three, one without an amount
PairRows ==
    { Row6(Str(<<"T","1">>), Str(<<"C","1">>), Str(<<"5">>), Str(s_completed), Num(10000)),
      Row6(Str(<<"t","1">>), Str(<<"C","1">>), Num(0), Str(s_completed), Num(-50000)),
      Row6(PyNone, Null, Str(<<"2","0","0","0","0","0","0">>), Str(s_failed), Num(10000)),
      Row6(Str(<<"T","4">>), Str(<<"C","1">>), PyNone, Str(s_pending), Null) }

AnomalySources ==
    {Source("api", "ok", "list", CanonicalHeader, cells) :
        cells \in {<<r>> : r \in RuleRows} \cup SeqsUpTo(PairRows, MaxAnomalyRows)}

InitAnomaly ==
    /\ source \in AnomalySources
    /\ pc = "ingestion"
    /\ pipeline_results = InitialResults
    /\ ingestion_result = Unset
    /\ validation_result = Unset
    /\ cleaning_result = Unset
    /\ anomaly_result = Unset
    /\ dataframe = Unset
    /\ rule_based_anomalies = <<>>
    /\ sample_indices = <<>>
    /\ llm_results = <<>>
    /\ llm_responses = <<>>
    /\ trace = <<>>
    /\ EmptyRegistry

NextAnomaly ==
    \/ RunIngestion
    \/ RunValidation
    \/ RunCleaning
    \/ BeginAnomalyDetection
    \/ LLMTaskComplete
    \/ FinishAnomalyDetection
    \/ RunReview
    \/ RunPublishing

SpecAnomaly == InitAnomaly /\ [][NextAnomaly]_vars

\* the entries rule-based detection returned for row k of the cleaned dataset
EntriesOf(k) ==
    SelectSeq(rule_based_anomalies, LAMBDA a : a.row_index = Cleaned.rows[k].idx)

\* what an entry says of its rule
Verdict(a) == <<a.anomaly_type, a.severity, a.confidence>>

Verdicts(entries) == [i \in 1..Len(entries) |-> Verdict(entries[i])]

\* the required fields row k of the cleaned dataset lacks
MissingFields(k) ==
    SelectSeq(<<c_transaction_id, c_customer_id, c_amount, c_status>>,
              LAMBDA f : isna(Cell(Cleaned, k, f)))

\* the entries the rules other than status_mismatch owe row k, in rule order;
\* amounts and balances in thousandths, confidences in hundredths
OwedVerdicts(k) ==
    LET amount  == Cell(Cleaned, k, c_amount)
        balance == Cell(Cleaned, k, c_balance)
        status  == Cell(Cleaned, k, c_status)
    IN  (IF balance.t = "num" /\ balance.n < 0 /\ status = Str(s_completed)
         THEN <<<<"negative_balance", "high", 95>>>> ELSE <<>>)
     \o (IF amount.t = "num" /\ amount.n > 1000000 * 1000
         THEN <<<<"suspicious_amount", "medium", 80>>>>
         ELSE IF amount.t = "num" /\ amount.n = 0
         THEN <<<<"suspicious_amount", "low", 70>>>> ELSE <<>>)
     \o (IF FlaggedDuplicate(Cleaned, k)
         THEN <<<<"duplicate_transaction", "medium", 100>>>> ELSE <<>>)
     \o (IF MissingFields(k) # <<>>
         THEN <<<<"missing_required_field", "critical", 100>>>> ELSE <<>>)

\* every balance of the cleaned dataset is a number or missing
BalancesAreNumbers ==
    \A k \in 1..Len(Cleaned.rows) :
        isna(Cell(Cleaned, k, c_balance)) \/ Cell(Cleaned, k, c_balance).t = "num"

\* C16: rule-based detection, run on a cleaned dataset, gives each row one
\* entry per rule the row satisfies, with the rule's fixed type, severity and
\* confidence - negative_balance high 0.95, suspicious_amount medium 0.80 above
\* 1,000,000 or low 0.70 at 0, status_mismatch high 0.90, duplicate_transaction
\* medium 1.0, missing_required_field critical 1.0 naming every missing field -
\* and none to a row that satisfies no rule.
C16_OneEntryPerSatisfiedRule ==
    (Began("anomaly_detection") /\ BalancesAreNumbers) =>
        /\ ~Threw("anomaly_detection")
        /\ \A k \in 1..Len(Cleaned.rows) :
               LET entries  == EntriesOf(k)
                   mismatch == SelectSeq(entries,
                                   LAMBDA a : a.anomaly_type = "status_mismatch")
                   others   == SelectSeq(entries,
                                   LAMBDA a : a.anomaly_type # "status_mismatch")
               IN  /\ Verdicts(others) = OwedVerdicts(k)
                   /\ Len(mismatch) <= 1
                   /\ \A i \in 1..Len(mismatch) :
                          /\ Verdict(mismatch[i]) = <<"status_mismatch", "high", 90>>
                          /\ Cell(Cleaned, k, c_status) = Str(s_failed)
                          /\ notna(Cell(Cleaned, k, c_balance))
                   /\ \A i \in 1..Len(entries) :
                          entries[i].anomaly_type = "missing_required_field" =>
                              entries[i].original_value = MissingFields(k)

\* C17: the status_mismatch rule fires for every row whose status is 'failed',
\* whose amount is a nonzero number, positive or negative, and whose balance is
\* present and differs from the amount: the row has an entry status_mismatch
\* with severity high and confidence 0.90.
C17_MismatchOnNonzeroAmount ==
    (Began("anomaly_detection") /\ ~Threw("anomaly_detection")) =>
        \A k \in 1..Len(Cleaned.rows) :
            ( /\ Cell(Cleaned, k, c_status) = Str(s_failed)
              /\ Cell(Cleaned, k, c_amount).t = "num"
              /\ Cell(Cleaned, k, c_amount).n # 0
              /\ Cell(Cleaned, k, c_balance).t = "num"
              /\ Cell(Cleaned, k, c_balance).n # Cell(Cleaned, k, c_amount).n )
            => \E i \in 1..Len(EntriesOf(k)) :
                   Verdict(EntriesOf(k)[i]) = <<"status_mismatch", "high", 90>>

\* the completion call k has returned
Answered(k) == ~IsPending(llm_responses[k])

\* the parsed answer says anomaly, with a confidence of 0.75 or more
Accepts(response) ==
    ~response.fails /\ response.is_anomaly /\ response.confidence >= 75

\* the model-based entries of an anomaly list
ModelEntries(anomalies) == SelectSeq(anomalies, LAMBDA a : a.detected_by = "watsonx-llm")

\* the rule-based entries of an anomaly list
RuleEntries(anomalies) == SelectSeq(anomalies, LAMBDA a : a.detected_by = "rule-based")

\* the anomaly list names the row labelled idx
Names(anomalies, idx) == \E i \in 1..Len(anomalies) : anomalies[i].row_index = idx

\* the row labelled idx is marked is_anomaly in df
Marked(df, idx) == RowGet(df, RowAt(df, idx), c_is_anomaly) = Bool(TRUE)

\* C18: a completion call yields a model-derived anomaly only if the parsed
\* answer says anomaly with a confidence of at least 0.75, the default
\* threshold; every model-derived entry of the stage's anomaly list comes from
\* such an answer; and an answer that is below the threshold, or says no
\* anomaly, adds no entry for its row and does not mark the row (the row is
\* marked only if a rule-based entry names it).
C18_AcceptedOnlyAtThreshold ==
    /\ Len(llm_responses) = Len(llm_results)
    /\ \A k \in 1..Len(llm_results) :
           (~IsPending(llm_results[k]) /\ llm_results[k] # EmptyDict) =>
               /\ Answered(k)
               /\ Accepts(llm_responses[k])
               /\ llm_results[k].confidence = llm_responses[k].confidence
               /\ llm_results[k].row_index = sample_indices[k]
    /\ Success(anomaly_result) =>
           /\ \A i \in 1..Len(ModelEntries(anomaly_result.anomalies)) :
                  \E k \in 1..Len(llm_responses) :
                      /\ sample_indices[k] =
                             ModelEntries(anomaly_result.anomalies)[i].row_index
                      /\ Accepts(llm_responses[k])
           /\ \A k \in 1..Len(llm_responses) :
                  ~Accepts(llm_responses[k]) =>
                      /\ ~Names(ModelEntries(anomaly_result.anomalies), sample_indices[k])
                      /\ Marked(anomaly_result.dataframe, sample_indices[k]) =>
                             Names(rule_based_anomalies, sample_indices[k])

C18_Witness ==
    /\ Success(anomaly_result)
    /\ Len(llm_responses) = 2
    /\ llm_responses[1].is_anomaly /\ llm_responses[1].confidence = 50
    /\ llm_results[1] = EmptyDict
    /\ ~Marked(anomaly_result.dataframe, sample_indices[1])
    /\ Accepts(llm_responses[2])
    /\ llm_results[2] # EmptyDict

\* some completion call that has returned failed or timed out
SomeCallFailed ==
    \E k \in 1..Len(llm_responses) : Answered(k) /\ llm_responses[k].fails

\* C19: once a completion call has failed or timed out, for whichever of the
\* sampled rows, the anomaly stage does not raise and the run records no error
\* and does not fail; the failed call yields no model-based anomaly; every
\* other call's result is what its own answer gives; and the stage returns
\* success with exactly the rule-based anomalies that rule-based detection
\* finds on the cleaned dataset, no entry of the list being a model-based
\* anomaly of a failed row.  A run that returns after such a failure is
\* completed.
C19_FailedCallsAreAbsorbed ==
    SomeCallFailed =>
        /\ ~Threw("anomaly_detection")
        /\ Errors = <<>>
        /\ pipeline_results.status # "failed"
        /\ pc = "returned" => pipeline_results.status = "completed"
        /\ \A k \in 1..Len(llm_responses) :
               Answered(k) =>
                   /\ llm_responses[k].fails => llm_results[k] = EmptyDict
                   /\ ~llm_responses[k].fails =>
                          llm_results[k] =
                              IF Accepts(llm_responses[k])
                              THEN _llm_detection(sample_indices[k],
                                                  llm_results[k].transaction_id,
                                                  llm_responses[k])
                              ELSE EmptyDict
        /\ anomaly_result # Unset =>
               /\ Success(anomaly_result)
               /\ RuleEntries(anomaly_result.anomalies) =
                      _rule_based_detection(SetColumn(Cleaned, c_is_anomaly, Bool(FALSE)))
               /\ \A k \in 1..Len(llm_responses) :
                      llm_responses[k].fails =>
                          ~Names(ModelEntries(anomaly_result.anomalies), sample_indices[k])

C19_Witness ==
    /\ pc = "returned"
    /\ pipeline_results.status = "completed"
    /\ Len(llm_responses) = 2
    /\ llm_responses[1].fails
    /\ Accepts(llm_responses[2])
    /\ llm_results[2] # EmptyDict
    /\ Len(rule_based_anomalies) > 0
    /\ anomaly_result.anomalies = rule_based_anomalies

\* C20: in the result of a successful anomaly detection every row's is_anomaly
\* is true or false, and it is true if and only if the returned anomaly list
\* has at least one entry, rule-based or model-based, whose row_index is that
\* row's label.
C20_MarkedIffListed ==
    Success(anomaly_result) =>
        \A k \in 1..Len(anomaly_result.dataframe.rows) :
            /\ Cell(anomaly_result.dataframe, k, c_is_anomaly) \in {Bool(TRUE), Bool(FALSE)}
            /\ Cell(anomaly_result.dataframe, k, c_is_anomaly) = Bool(TRUE)
                   <=> Names(anomaly_result.anomalies,
                             anomaly_result.dataframe.rows[k].idx)

C20_Witness ==
    /\ Success(anomaly_result)
    /\ Len(anomaly_result.dataframe.rows) = 2
    /\ Cell(anomaly_result.dataframe, 1, c_is_anomaly) = Bool(FALSE)
    /\ ~Names(anomaly_result.anomalies, anomaly_result.dataframe.rows[1].idx)
    /\ Cell(anomaly_result.dataframe, 2, c_is_anomaly) = Bool(TRUE)
    /\ Names(anomaly_result.anomalies, anomaly_result.dataframe.rows[2].idx)

(***************************************************************************)
(* The whole run on datasets of a few rows that differ in how many rows    *)
(* are valid and how many anomalies the rows carry.                        *)
(***************************************************************************)
\* a bound on the model: the rows of a dataset handed to the whole run
MaxReviewRows == 3

s_bogus == <<"b","o","g","u","s">>

\* a row no check fails on and no rule fires on
PlainRow(txn) ==
    Row6(Str(txn), Str(<<"C","1">>), Num(100500), Str(s_completed), Num(200000))

\* balance = -50 with status 'completed': a valid row with one anomaly
OverdrawnRow(txn) ==
    Row6(Str(txn), Str(<<"C","1">>), Num(50000), Str(s_completed), Num(-50000))

\* amount = 0: an invalid row with one anomaly
ZeroAmountRow(txn, status, balance) ==
    Row6(Str(txn), Str(<<"C","1">>), Num(0), Str(status), balance)

\* an invalid row with no anomaly
BogusStatusRow(txn) ==
    Row6(Str(txn), Str(<<"C","1">>), Num(100500), Str(s_bogus), Num(200000))

\* an invalid row with two anomalies
ZeroOverdrawnRow(txn) ==
    Row6(Str(txn), Str(<<"C","1">>), Num(0), Str(s_completed), Num(-50000))

\* a valid row with two anomalies
HighOverdrawnRow(txn) ==
    Row6(Str(txn), Str(<<"C","1">>), Str(<<"2","0","0","0","0","0","0">>),
         Str(s_completed), Num(-50000))

\* the datasets are the first rows of these
ReviewTables ==
    LET T1 == <<"T","1">>
        T2 == <<"T","2">>
        T3 == <<"T","3">>
        T4 == <<"T","4">>
    IN  { <<PlainRow(T1), OverdrawnRow(T2), ZeroAmountRow(T3, s_pending, Num(200000)),
            PlainRow(T4)>>,
          <<PlainRow(T1), OverdrawnRow(T2), ZeroAmountRow(T3, s_completed, Num(300000)),
            PlainRow(T4)>>,
          <<PlainRow(T1), OverdrawnRow(T2), BogusStatusRow(T3), PlainRow(T4)>>,
          <<ZeroOverdrawnRow(T1), ZeroOverdrawnRow(T2), ZeroOverdrawnRow(T3),
            ZeroOverdrawnRow(T4)>>,
          <<HighOverdrawnRow(T1), HighOverdrawnRow(T2), HighOverdrawnRow(T3),
            HighOverdrawnRow(T4)>>,
          <<PlainRow(T1), HighOverdrawnRow(T2), PlainRow(T3), PlainRow(T4)>> }

ReviewSources ==
    {Source(source_type, "ok", shape, CanonicalHeader, Take(table, n)) :
        source_type \in {"api"}, shape \in {"list"},
        table \in ReviewTables, n \in 1..MaxReviewRows}

InitReview ==
    /\ source \in ReviewSources
    /\ pc = "ingestion"
    /\ pipeline_results = InitialResults
    /\ ingestion_result = Unset
    /\ validation_result = Unset
    /\ cleaning_result = Unset
    /\ anomaly_result = Unset
    /\ dataframe = Unset
    /\ rule_based_anomalies = <<>>
    /\ sample_indices = <<>>
    /\ llm_results = <<>>
    /\ llm_responses = <<>>
    /\ trace = <<>>
    /\ EmptyRegistry

NextReview ==
    \/ RunIngestion
    \/ RunValidation
    \/ RunCleaning
    \/ BeginAnomalyDetection
    \/ LLMTaskComplete
    \/ FinishAnomalyDetection
    \/ RunReview
    \/ RunPublishing

SpecReview == InitReview /\ [][NextReview]_vars

\* the run returned with status 'completed'
Completed == pc = "returned" /\ pipeline_results.status = "completed"

\* the counts the review works from
ReviewTotalRows == Len(pipeline_results.stages["publishing"].dataframe.rows)
ReviewValidRows == validation_result.metrics.valid_rows
ReviewAnomalyCount == Len(anomaly_result.anomalies)
ReviewMetrics == pipeline_results.stages["review"].metrics

Max0(n) == IF n > 0 THEN n ELSE 0

\* q is p percent rounded to two decimal places, p = a / b * 100, in hundredths:
\* no hundredth is nearer to p than q
IsRounded(q, a, b) == 2 * (q * b - a * 10000) <= b /\ 2 * (a * 10000 - q * b) <= b

\* C21 as stated: for every completed run quality_score is exactly
\* max(0, validation rate - anomaly rate), the rates being the percentages
\* valid_rows / total_rows * 100 and anomaly_count / total_rows * 100, and is the
\* difference of the reported validation_rate and anomaly_rate when that is
\* positive; it lies in [0, 100].
C21_QualityScoreIsRateDifference ==
    Completed =>
        /\ pipeline_results.overall_metrics.quality_score * ReviewTotalRows =
               Max0(ReviewValidRows - ReviewAnomalyCount) * 10000
        /\ pipeline_results.overall_metrics.quality_score =
               Max0(ReviewMetrics.validation_rate - ReviewMetrics.anomaly_rate)
        /\ pipeline_results.overall_metrics.quality_score \in 0..10000

\* C21: for every completed run quality_score is
\* max(0, (valid_rows - anomaly_count) / total_rows * 100) rounded to two
\* decimal places, is the same in the review metrics and the overall metrics,
\* is 0 whenever the anomalies are as many as the valid rows, and lies in
\* [0, 100]; it is within 0.01 of the difference of the reported rates when
\* that difference is positive.
C21_QualityScoreRounded ==
    Completed =>
        /\ IsRounded(pipeline_results.overall_metrics.quality_score,
                     Max0(ReviewValidRows - ReviewAnomalyCount), ReviewTotalRows)
        /\ pipeline_results.overall_metrics.quality_score = ReviewMetrics.quality_score
        /\ ReviewAnomalyCount >= ReviewValidRows =>
               pipeline_results.overall_metrics.quality_score = 0
        /\ pipeline_results.overall_metrics.quality_score \in 0..10000
        /\ pipeline_results.overall_metrics.quality_score
             - Max0(ReviewMetrics.validation_rate - ReviewMetrics.anomaly_rate) \in -1..1

\* a completed run on three valid rows that carry two anomalies each: the
\* anomaly rate is 200 percent, the validation rate 100, the score 0
C21_Witness ==
    /\ Completed
    /\ ReviewTotalRows = 3
    /\ ReviewValidRows = 3
    /\ ReviewAnomalyCount = 6
    /\ ReviewMetrics.anomaly_rate = 20000
    /\ pipeline_results.overall_metrics.quality_score = 0

\* the end-to-end scenario: three rows, the first with no defect, the second
\* with balance = -50 and status 'completed', the third with amount = 0 and
\* nothing else wrong
Scenario ==
    \E status \in {s_pending, s_completed}, balance \in {Num(200000), Num(300000)} :
        source.cells = <<PlainRow(<<"T","1">>), OverdrawnRow(<<"T","2">>),
                         ZeroAmountRow(<<"T","3">>, status, balance)>>

\* the anomaly entry is for the row labelled idx, with this verdict
IsEntry(a, idx, anomaly_type, severity, confidence) ==
    /\ a.row_index = idx
    /\ a.anomaly_type = anomaly_type
    /\ a.severity = severity
    /\ a.confidence = confidence
    /\ a.detected_by = "rule-based"

AnomalyType ==
    {"negative_balance", "duplicate_transaction", "invalid_date", "suspicious_amount",
     "status_mismatch", "missing_required_field", "invalid_format", "outlier",
     "semantic_inconsistency", "other"}

AnomalySeverity == {"low", "medium", "high", "critical"}

\* confidence in [0.0, 1.0], severity and anomaly_type of the enumerations
WellFormed(a) ==
    /\ a.confidence \in 0..100
    /\ a.severity \in AnomalySeverity
    /\ a.anomaly_type \in AnomalyType

\* the anomaly records of the run's result
ResultAnomalies ==
    IF "anomaly_detection" \in DOMAIN pipeline_results.stages
       /\ "anomalies" \in DOMAIN pipeline_results.stages["anomaly_detection"]
    THEN pipeline_results.stages["anomaly_detection"].anomalies
    ELSE <<>>

\* C23: every anomaly record of the anomaly stage's result and of the run's
\* result has a confidence in [0.0, 1.0], a severity among low, medium, high
\* and critical, and an anomaly_type of the AnomalyType enumeration, whatever
\* the completion service answered.
C23_RecordsAreWellFormed ==
    /\ \A i \in 1..Len(ResultAnomalies) : WellFormed(ResultAnomalies[i])
    /\ Success(anomaly_result) =>
           \A i \in 1..Len(anomaly_result.anomalies) : WellFormed(anomaly_result.anomalies[i])

\* a completed run with anomalies in its result, one of whose completion calls
\* answered an anomaly with confidence 95.0, type 'fraud' and severity 'urgent'
C23_Witness ==
    /\ Completed
    /\ Len(ResultAnomalies) > 0
    /\ \E k \in 1..Len(llm_responses) :
           /\ llm_responses[k].confidence = 9500
           /\ llm_results[k] # EmptyDict
           /\ ~WellFormed(llm_results[k])

(***************************************************************************)
(* The run registry (api/v1/ingestion.py, api/v1/pipelines.py,             *)
(* api/v1/datasets.py): the ingestion handlers store an entry and schedule *)
(* the run as a background task, the task writes the entry again when      *)
(* execute_full_pipeline returns, and callers look entries up and delete   *)
(* them.  pc is "none" before the first request and "finished" once the    *)
(* background task of the latest run is over.                              *)
(***************************************************************************)
\* a bound on the model: the runs started, one after the other
MaxRuns == 2

\* str(uuid.uuid4()) of DataPipeline.__init__: a fresh id for each run
PipelineIds == <<"pipeline-1", "pipeline-2", "pipeline-3", "pipeline-4">>

\* the sources the handlers start runs on
RegistrySources ==
    { Source("csv", "ok", "none", CsvHeader, cells) : cells \in [1..1 -> CsvRows] }
    \cup { Source("csv", "error", "none", CsvHeader, <<>>),
           Source("sql", "ok", "none", CanonicalHeader, <<PlainRow(<<"T","1">>)>>),
           Source("api", "ok", "list", CanonicalHeader, <<OverdrawnRow(<<"T","2">>)>>),
           Source("api", "error", "list", CanonicalHeader, <<>>) }

\* no background task is scheduled or running, and another run may be started
MayStartRun ==
    /\ pc \in {"none", "finished"}
    /\ Cardinality(DOMAIN created) < MaxRuns

NextPipelineId == PipelineIds[Cardinality(DOMAIN created) + 1]

\* DataPipeline() and background_tasks.add_task(execute_pipeline_background, ...):
\* the entry is stored and the run scheduled
StartRun(pipeline_id, entry, src) ==
    /\ active_pipelines' = (pipeline_id :> entry) @@ active_pipelines
    /\ created' = (pipeline_id :> entry) @@ created
    /\ UNCHANGED deleted
    /\ source' = src
    /\ pc' = "ingestion"
    /\ pipeline_results' = [InitialResults EXCEPT !.pipeline_id = pipeline_id]
    /\ ingestion_result' = Unset
    /\ validation_result' = Unset
    /\ cleaning_result' = Unset
    /\ anomaly_result' = Unset
    /\ dataframe' = Unset
    /\ rule_based_anomalies' = <<>>
    /\ sample_indices' = <<>>
    /\ llm_results' = <<>>
    /\ llm_responses' = <<>>
    /\ trace' = <<>>

\* POST /csv with a file name that ends in '.csv' and auto_process
ingest_csv ==
    /\ MayStartRun
    /\ \E src \in {s \in RegistrySources : s.source_type = "csv"} :
           StartRun(NextPipelineId,
                    [status |-> "running", file_path |-> "uploads/file-id_a.csv",
                     file_name |-> "a.csv"],
                    src)

\* POST /sql
ingest_sql ==
    /\ MayStartRun
    /\ \E src \in {s \in RegistrySources : s.source_type = "sql"} :
           StartRun(NextPipelineId, [status |-> "running", source_type |-> "sql"], src)

\* POST /api
ingest_api ==
    /\ MayStartRun
    /\ \E src \in {s \in RegistrySources : s.source_type = "api"} :
           StartRun(NextPipelineId,
                    [status |-> "running", source_type |-> "api",
                     api_endpoint |-> "http://bank/api"],
                    src)

\* active_pipelines[pipeline_id] = {"status": ..., "result": result, "completed": True}
StoreResult(entries, pipeline_id, result) ==
    (pipeline_id :> [status |-> result.status, result |-> result, completed |-> TRUE])
    @@ entries

\* execute_pipeline_background, from the return of execute_full_pipeline on
execute_pipeline_background ==
    /\ pc = "returned"
    /\ active_pipelines' =
           StoreResult(active_pipelines, pipeline_results.pipeline_id, pipeline_results)
    /\ pc' = "finished"
    /\ UNCHANGED <<source, pipeline_results, ingestion_result, validation_result,
                   cleaning_result, anomaly_result, dataframe, rule_based_anomalies,
                   sample_indices, llm_results, llm_responses, trace, created, deleted>>

\* the points at which the event loop serves another request: no task is
\* running, the task is scheduled and not begun or awaits the fetch of its
\* source, or it awaits the gathered completion calls
ServesRequests == pc \in {"none", "ingestion", "llm_gather", "finished"}

\* Without as it would be were the entry kept and marked
MarkedDeleted(entries, pipeline_id) ==
    [entries EXCEPT ![pipeline_id] = [status |-> "deleted"]]

\* del active_pipelines[pipeline_id]
Without(entries, pipeline_id) ==
    IF DOMAIN entries = {pipeline_id} THEN <<>>
    ELSE [id \in DOMAIN entries \ {pipeline_id} |-> entries[id]]

\* DELETE /{pipeline_id} of an id that is in the registry (404 otherwise)
delete_pipeline ==
    /\ ServesRequests
    /\ \E pipeline_id \in DOMAIN active_pipelines :
           /\ active_pipelines' = Without(active_pipelines, pipeline_id)
           /\ deleted' = deleted \cup {pipeline_id}
    /\ UNCHANGED <<source, pc, pipeline_results, ingestion_result, validation_result,
                   cleaning_result, anomaly_result, dataframe, rule_based_anomalies,
                   sample_indices, llm_results, llm_responses, trace, created>>

\* dict.get(key, default)
DictGet(d, key, default) == IF key \in DOMAIN d THEN d[key] ELSE default

None == [none |-> TRUE]

\* GET /{pipeline_id}: 404, or the status, completed flag, result and error
get_pipeline_status(pipeline_id) ==
    IF pipeline_id \notin DOMAIN active_pipelines
    THEN [status_code |-> 404]
    ELSE [status_code |-> 200,
          pipeline_id |-> pipeline_id,
          status |-> DictGet(active_pipelines[pipeline_id], "status", None),
          completed |-> DictGet(active_pipelines[pipeline_id], "completed", FALSE),
          result |-> DictGet(active_pipelines[pipeline_id], "result", None),
          error |-> DictGet(active_pipelines[pipeline_id], "error", None)]

InitRegistry ==
    /\ source = Unset
    /\ pc = "none"
    /\ pipeline_results = Unset
    /\ ingestion_result = Unset
    /\ validation_result = Unset
    /\ cleaning_result = Unset
    /\ anomaly_result = Unset
    /\ dataframe = Unset
    /\ rule_based_anomalies = <<>>
    /\ sample_indices = <<>>
    /\ llm_results = <<>>
    /\ llm_responses = <<>>
    /\ trace = <<>>
    /\ EmptyRegistry

NextRegistry ==
    \/ ingest_csv
    \/ ingest_sql
    \/ ingest_api
    \/ RunIngestion
    \/ RunValidation
    \/ RunCleaning
    \/ BeginAnomalyDetection
    \/ LLMTaskComplete
    \/ FinishAnomalyDetection
    \/ RunReview
    \/ RunPublishing
    \/ execute_pipeline_background
    \/ delete_pipeline

SpecRegistry == InitRegistry /\ [][NextRegistry]_vars

IsTerminal(entry) == entry.status \in {"completed", "failed"}

\* C24: in every step, an entry that is in the registry before and after is
\* either left as it is or moves from 'running' to 'completed' or 'failed'
\* (a terminal entry is never written again: its status and result stay), and
\* an entry that enters the registry has one of these three statuses.
C24_RunningToTerminalOnly ==
    [][\A id \in DOMAIN active_pipelines' :
           IF id \in DOMAIN active_pipelines
           THEN \/ active_pipelines'[id] = active_pipelines[id]
                \/ /\ active_pipelines[id].status = "running"
                   /\ IsTerminal(active_pipelines'[id])
           ELSE active_pipelines'[id].status \in {"running", "completed", "failed"}]_vars

\* the first run has reached a terminal state, a second run has been started
\* since, and the first run's entry holds the result its task stored
C24_Witness ==
    /\ DOMAIN created = {"pipeline-1", "pipeline-2"}
    /\ "pipeline-1" \in DOMAIN active_pipelines
    /\ "pipeline-1" \notin deleted
    /\ created["pipeline-1"].status = "running"
    /\ active_pipelines["pipeline-1"].status = "completed"
    /\ active_pipelines["pipeline-1"].result.status = "completed"
    /\ active_pipelines["pipeline-1"].result.pipeline_id = "pipeline-1"
    /\ pc = "finished"

\* C27: once delete_pipeline has removed a run, looking its id up answers
\* 404, in every later state - also when the run's background task was
\* still scheduled or running at the delete and finishes afterwards.
C27_DeletedStaysNotFound ==
    \A id \in deleted : get_pipeline_status(id).status_code = 404

\* the descriptive fields of an entry: all the handler stored but the status
Descriptive(entry) == DOMAIN entry \ {"status"}

\* C28: an entry that has reached a terminal state still has every
\* descriptive field its handler stored (file_name, file_path, source_type,
\* api_endpoint), with the value stored.
C28_DescriptiveFieldsKept ==
    \A id \in DOMAIN active_pipelines :
        IsTerminal(active_pipelines[id]) =>
            \A field \in Descriptive(created[id]) :
                /\ field \in DOMAIN active_pipelines[id]
                /\ active_pipelines[id][field] = created[id][field]

\* what the call for slot k returns, given what the service answered it
OwnResult(k) ==
    _llm_detection(sample_indices[k],
                   RowGet(Cleaned, RowAt(Cleaned, sample_indices[k]), c_transaction_id),
                   llm_responses[k])

\* the stage's output as a function of the cleaned dataset, the rows sampled
\* and the answer given for each of them
OutputOfAnswers ==
    AnomalyMerge(SetColumn(Cleaned, c_is_anomaly, Bool(FALSE)),
                 _rule_based_detection(SetColumn(Cleaned, c_is_anomaly, Bool(FALSE))),
                 [k \in 1..Len(sample_indices) |-> OwnResult(k)])

\* C25: while the completion calls are in flight the dataset, the rule-based
\* anomalies and the sample are not modified; a call that returns writes the
\* slot of its own row, once, and no other slot; each slot holds what its own
\* call returned whatever the order in which the calls return; and the
\* stage's output (anomaly list in content and order, is_anomaly marks,
\* metrics) is a function of the cleaned dataset, the sample and the answer
\* given for each row, the same for every order of completion.
C25_OutputIndependentOfOrder ==
    /\ [](pc = "llm_gather" =>
              /\ dataframe = Cleaned
              /\ \A k \in 1..Len(llm_results) :
                     IF Answered(k) THEN llm_results[k] = OwnResult(k)
                     ELSE IsPending(llm_results[k]))
    /\ [](Success(anomaly_result) => anomaly_result = OutputOfAnswers)
    /\ [][(pc = "llm_gather" /\ pc' = "llm_gather") =>
              /\ dataframe' = dataframe
              /\ rule_based_anomalies' = rule_based_anomalies
              /\ sample_indices' = sample_indices
              /\ \E k \in 1..Len(llm_results) :
                     /\ IsPending(llm_results[k])
                     /\ \A j \in 1..Len(llm_results) :
                            j # k => llm_results'[j] = llm_results[j]]_vars

\* the call for the second sampled row has returned an accepted anomaly while
\* the call for the first is still in flight
C25_Witness ==
    /\ pc = "llm_gather"
    /\ Len(llm_results) = 2
    /\ IsPending(llm_results[1])
    /\ ~IsPending(llm_results[2])
    /\ llm_results[2] # EmptyDict
    /\ llm_results[2].row_index = sample_indices[2]

\* the balance row k came with, and the one it has after cleaning
OriginalBalance(k) == Cell(Uncleaned, k, c_balance)
CleanedBalance(k) == Cell(Cleaned, k, c_balance)

\* C26: after cleaning, a row whose balance was not null has that balance;
\* a row whose balance was null has the balance of the nearest row above it
\* whose balance was not null, and a null balance when there is no such row.
C26_BalanceForwardFilled ==
    Success(cleaning_result) =>
        \A k \in 1..Len(Cleaned.rows) :
            IF notna(OriginalBalance(k)) THEN CleanedBalance(k) = OriginalBalance(k)
            ELSE IF \E j \in 1..(k - 1) : notna(OriginalBalance(j))
            THEN \E j \in 1..(k - 1) :
                     /\ notna(OriginalBalance(j))
                     /\ \A i \in (j + 1)..(k - 1) : isna(OriginalBalance(i))
                     /\ CleanedBalance(k) = OriginalBalance(j)
            ELSE isna(CleanedBalance(k))

\* three rows, the balance missing from the second and the third: both have
\* the first row's balance after cleaning
C26_Witness ==
    /\ Success(cleaning_result)
    /\ Len(Cleaned.rows) = 3
    /\ notna(OriginalBalance(1))
    /\ isna(OriginalBalance(2))
    /\ isna(OriginalBalance(3))
    /\ CleanedBalance(2) = OriginalBalance(1)
    /\ CleanedBalance(3) = OriginalBalance(1)

\* C29: a failed run's result has an empty overall_metrics and no 'review' and
\* no 'publishing' stage entry; overall_metrics is non-empty exactly when the
\* status is 'completed', and it is written only by the step that sets the
\* status to 'completed'.
C29_FailedRunHasNoMetrics ==
    /\ [](pipeline_results.status = "failed" =>
              /\ pipeline_results.overall_metrics = <<>>
              /\ "review" \notin DOMAIN pipeline_results.stages
              /\ "publishing" \notin DOMAIN pipeline_results.stages)
    /\ [](pipeline_results.overall_metrics # <<>> <=> pipeline_results.status = "completed")
    /\ [][pipeline_results'.overall_metrics # pipeline_results.overall_metrics =>
              /\ pipeline_results.status = "running"
              /\ pipeline_results'.status = "completed"]_vars

\* a run that failed after stages had completed: their entries are kept, the
\* overall metrics are empty
C29_Witness ==
    /\ pc = "returned"
    /\ pipeline_results.status = "failed"
    /\ {"ingestion", "validation", "cleaning"} \subseteq DOMAIN pipeline_results.stages
    /\ pipeline_results.overall_metrics = <<>>

\* no name occurs twice in the header
PairwiseDistinct(columns) ==
    \A i, j \in 1..Len(columns) : i # j => columns[i] # columns[j]

\* C30: when the source's column names are pairwise distinct, the names of the
\* ingested dataset's columns are pairwise distinct too.
C30_DistinctNamesStayDistinct ==
    (Success(ingestion_result) /\ PairwiseDistinct(source.columns)) =>
        PairwiseDistinct(ingestion_result.dataframe.columns)

====
